---- MODULE Spec2Model ----
(***************************************************************************)
(* A model of the trading agent's decision core: the Risk Manager          *)
(* (src/src/risk_manager.py), the indicator library (src/src/indicators.py),*)
(* the Trend-Pullback strategy (src/src/strategy.py), the backtest        *)
(* simulator (src/backtest.py) and the live agent's loop thread            *)
(* (src/src/agent.py).                                                     *)
(*                                                                         *)
(* Floating-point numbers are modelled as exact rationals <<n, d>> in      *)
(* lowest terms with d > 0, extended with the IEEE values the code can     *)
(* produce: NaN = <<0, 0>>, +inf = <<1, 0>>, -inf = <<-1, 0>>.             *)
(***************************************************************************)
EXTENDS Integers, Sequences, FiniteSets, TLC

VARIABLES
    \* ---- RiskManager instance (src/src/risk_manager.py) ----
    account,             \* self.account: [present, equity]
    daily_pnl,           \* self.daily_pnl
    consecutive_losses,  \* self.consecutive_losses
    last_reset_date,     \* self.last_reset_date (a day number)
    today,               \* the wall clock's UTC date (a day number)
    open_positions,      \* number of positions open at the brokerage
    call,                \* the last RiskManager call and what it returned
    config,              \* the values __init__ parsed from the config object
    tripped,             \* history: consecutive_losses reached the limit since the last reset
    won_since,           \* history: a non-losing close was recorded after that
    \* ---- run_backtest (src/backtest.py) ----
    data,                \* the bars of the symbol: sequence of [high, low, close]
    data_alt,            \* a second series, equal to data on a prefix
    params,              \* rr_ratio, initial_capital and the risk configuration
    bar,                 \* the loop index i (0-based) of the next bar to process
    ledger,              \* the simulator's state for the run over data
    ledger_alt,          \* the simulator's state for the run over data_alt
    event,               \* what the last processed bar did (run over data)
    \* ---- indicators and strategies (src/src/indicators.py, strategy.py,
    \*      scalping_strategy.py) ----
    columns,             \* the indicator columns computed over data
    strategy,            \* the strategy object: its variant, params and df
    last_signal,         \* what the last generate_signal call returned
    \* ---- TradingAgent (src/src/agent.py) ----
    is_running,          \* self.is_running (a threading.Event)
    agent_thread,        \* self.agent_thread: 0 for None, else a thread id
    threads,             \* thread id -> where that thread is in _main_loop
    caller,              \* where the thread calling start() / stop() is
    cycle                \* the decision cycle of _main_loop in progress

vars == <<account, daily_pnl, consecutive_losses, last_reset_date, today,
          open_positions, call, config, tripped, won_since,
          data, data_alt, params, bar, ledger, ledger_alt, event,
          columns, strategy, last_signal,
          is_running, agent_thread, threads, caller, cycle>>

rmVars == <<account, daily_pnl, consecutive_losses, last_reset_date, today,
            open_positions, call, config, tripped, won_since>>

btVars == <<data, data_alt, params, bar, ledger, ledger_alt, event>>

stVars == <<columns, strategy, last_signal>>

agVars == <<is_running, agent_thread, threads, caller, cycle>>

----------------------------------------------------------------------------
(* Extended rational arithmetic standing for Python / numpy floats.        *)

RECURSIVE Gcd(_, _)
Gcd(a, b) == IF b = 0 THEN a ELSE Gcd(b, a % b)

AbsInt(n) == IF n < 0 THEN -n ELSE n

SignInt(n) == IF n < 0 THEN -1 ELSE IF n > 0 THEN 1 ELSE 0

NaN == <<0, 0>>

PosInf == <<1, 0>>

NegInf == <<-1, 0>>

IsNaN(x) == x = NaN

IsInf(x) == x[2] = 0 /\ x[1] # 0

IsFinite(x) == x[2] # 0

\* The rational n/d (d # 0) in lowest terms with a positive denominator.
Rat(n, d) ==
    LET g == Gcd(AbsInt(n), AbsInt(d))
        s == IF d < 0 THEN -1 ELSE 1
    IN  <<(s * n) \div g, (s * d) \div g>>

Int2R(n) == <<n, 1>>

Zero == <<0, 1>>

Neg(x) == <<-x[1], x[2]>>

Add(x, y) ==
    IF IsNaN(x) \/ IsNaN(y) THEN NaN
    ELSE IF IsInf(x) /\ IsInf(y) THEN (IF x = y THEN x ELSE NaN)
    ELSE IF IsInf(x) THEN x
    ELSE IF IsInf(y) THEN y
    ELSE LET g == Gcd(x[2], y[2])
         IN  Rat(x[1] * (y[2] \div g) + y[1] * (x[2] \div g),
                 (x[2] \div g) * y[2])

Sub(x, y) == Add(x, Neg(y))

Mul(x, y) ==
    IF IsNaN(x) \/ IsNaN(y) THEN NaN
    ELSE IF IsInf(x) \/ IsInf(y)
         THEN (IF x[1] = 0 \/ y[1] = 0 THEN NaN
               ELSE <<SignInt(x[1]) * SignInt(y[1]), 0>>)
    ELSE LET g1 == Gcd(AbsInt(x[1]), y[2])
             g2 == Gcd(AbsInt(y[1]), x[2])
         IN  <<(x[1] \div g1) * (y[1] \div g2), (x[2] \div g2) * (y[2] \div g1)>>

\* numpy float division: x/0 is +-inf (NaN for 0/0), never an exception.
Div(x, y) ==
    IF IsNaN(x) \/ IsNaN(y) THEN NaN
    ELSE IF IsInf(y) THEN (IF IsInf(x) THEN NaN ELSE Zero)
    ELSE IF y[1] = 0
         THEN (IF x[1] = 0 THEN NaN ELSE <<SignInt(x[1]), 0>>)
    ELSE IF IsInf(x) THEN <<SignInt(x[1]) * SignInt(y[1]), 0>>
    ELSE Mul(x, <<SignInt(y[1]) * y[2], AbsInt(y[1])>>)

\* Comparisons: every comparison with NaN is false.
Lt(x, y) ==
    /\ ~IsNaN(x)
    /\ ~IsNaN(y)
    /\ IF IsInf(x) \/ IsInf(y)
       THEN (IF IsInf(x) /\ IsInf(y) THEN x[1] < y[1]
             ELSE IF IsInf(x) THEN x[1] < 0
             ELSE y[1] > 0)
       ELSE LET g == Gcd(x[2], y[2])
            IN  x[1] * (y[2] \div g) < y[1] * (x[2] \div g)

Le(x, y) == ~IsNaN(x) /\ ~IsNaN(y) /\ (x = y \/ Lt(x, y))

Gt(x, y) == Lt(y, x)

Ge(x, y) == Le(y, x)

AbsR(x) == <<AbsInt(x[1]), x[2]>>

\* Python's builtin min(a, b) / max(a, b): the first argument unless the
\* second compares strictly smaller / larger (so a NaN second argument loses).
PyMin(a, b) == IF Lt(b, a) THEN b ELSE a

PyMax(a, b) == IF Gt(b, a) THEN b ELSE a

\* A local variable of the code: the value v, computed once, under the name
\* the body F gives it.
Bind(v, F(_)) == F(v)

----------------------------------------------------------------------------
(* Indicator library (src/src/indicators.py). A series is a sequence of    *)
(* floats; index i of the code is position i + 1 here.                     *)

One == <<1, 1>>

Hundred == <<100, 1>>

\* A pandas Series held as a sequence of its values, in index order.
AsSeries(f) == SubSeq(f, 1, Len(f))

\* pandas' ewm(span, adjust=False).mean(): the running weighted average wa
\* and the weight old of what came before; a NaN sample decays old and
\* leaves wa, a first sample after leading NaNs seeds wa.
RECURSIVE EwmAcc(_, _, _, _, _, _)
EwmAcc(vals, alpha, k, wa, old, out) ==
    IF k > Len(vals) THEN out
    ELSE LET cur == vals[k]
             obs == ~IsNaN(cur)
             seeded == ~IsNaN(wa)
         IN  Bind(IF seeded THEN Mul(old, Sub(One, alpha)) ELSE old,
                  LAMBDA old1 :
             Bind(IF seeded
                  THEN (IF obs /\ wa # cur
                        THEN Div(Add(Mul(old1, wa), Mul(alpha, cur)),
                                 Add(old1, alpha))
                        ELSE wa)
                  ELSE cur,
                  LAMBDA wa1 :
             EwmAcc(vals, alpha, k + 1, wa1,
                    IF seeded /\ obs THEN One ELSE old1, Append(out, wa1))))

calculate_ema(series, length) ==
    IF series = <<>> THEN <<>>
    ELSE EwmAcc(series, Rat(2, length + 1), 2, series[1], One, <<series[1]>>)

Highs(d) == AsSeries([k \in 1 .. Len(d) |-> d[k].high])

Lows(d) == AsSeries([k \in 1 .. Len(d) |-> d[k].low])

Closes(d) == AsSeries([k \in 1 .. Len(d) |-> d[k].close])

Max2(a, b) == IF Gt(b, a) THEN b ELSE a

\* The true range of bar k: the row maximum skips the NaN of the first bar,
\* which has no previous close.
TrueRange(d, k) ==
    LET h_l == Sub(d[k].high, d[k].low)
    IN  IF k = 1 THEN h_l
        ELSE Max2(Max2(h_l, AbsR(Sub(d[k].high, d[k - 1].close))),
                  AbsR(Sub(d[k].low, d[k - 1].close)))

calculate_atr(d, length) ==
    calculate_ema(AsSeries([k \in 1 .. Len(d) |-> TrueRange(d, k)]), length)

\* series.diff(): NaN at the first index.
Diff(series) ==
    AsSeries([k \in 1 .. Len(series) |->
                 IF k = 1 THEN NaN ELSE Sub(series[k], series[k - 1])])

RECURSIVE SumRange(_, _, _)
SumRange(vals, lo, hi) ==
    IF lo > hi THEN Zero ELSE Add(vals[lo], SumRange(vals, lo + 1, hi))

RollingMeanCentered(vals, window) ==
    AsSeries([k \in 1 .. Len(vals) |->
                 IF k + window - 1 > Len(vals) THEN NaN
                 ELSE Div(SumRange(vals, k, k + window - 1), Int2R(window))])

\* rolling(window).mean(): NaN until the window is full.
RollingMean(vals, window) ==
    AsSeries([k \in 1 .. Len(vals) |->
                 IF k < window THEN NaN
                 ELSE Div(SumRange(vals, k - window + 1, k), Int2R(window))])

calculate_rsi(series, length) ==
    LET delta == Diff(series)
        up == AsSeries([k \in 1 .. Len(series) |->
                           IF Gt(delta[k], Zero) THEN delta[k] ELSE Zero])
        down == AsSeries([k \in 1 .. Len(series) |->
                             IF Lt(delta[k], Zero) THEN Neg(delta[k]) ELSE Zero])
        gain == RollingMean(up, length)
        loss == RollingMean(down, length)
    IN  AsSeries([k \in 1 .. Len(series) |->
                     Sub(Hundred, Div(Hundred, Add(One, Div(gain[k], loss[k]))))])

\* +DM: the high's delta with negative values zeroed (line 31).
PlusDM(d) ==
    LET dh == Diff(Highs(d))
    IN  AsSeries([k \in 1 .. Len(d) |->
                     IF Lt(dh[k], Zero) THEN Zero ELSE dh[k]])

\* -DM: the low's delta with positive values zeroed (line 32).
MinusDM(d) ==
    LET dl == Diff(Lows(d))
    IN  AsSeries([k \in 1 .. Len(d) |->
                     IF Gt(dl[k], Zero) THEN Zero ELSE dl[k]])

\* calculate_adx: <<adx, plus_di, minus_di>>.
calculate_adx(d, length) ==
    LET sp == calculate_ema(PlusDM(d), length)
        sm == calculate_ema(MinusDM(d), length)
    IN  Bind(calculate_atr(d, length), LAMBDA atr :
        Bind(AsSeries([k \in 1 .. Len(d) |->
                          Mul(Hundred, Div(sp[k], atr[k]))]),
             LAMBDA plus_di :
        Bind(AsSeries([k \in 1 .. Len(d) |->
                          Mul(Hundred, Div(AbsR(sm[k]), atr[k]))]),
             LAMBDA minus_di :
        Bind(AsSeries([k \in 1 .. Len(d) |->
                          Mul(Hundred,
                              Div(AbsR(Sub(plus_di[k], minus_di[k])),
                                  Add(plus_di[k], minus_di[k])))]),
             LAMBDA dx :
        <<calculate_ema(dx, length), plus_di, minus_di>>))))

\* The columns the library computes over the bars d with the lengths of sp.
IndicatorColumns(d, sp) ==
    Bind(calculate_adx(d, sp.adx_len), LAMBDA adx :
    [ema |-> calculate_ema(Closes(d), sp.ema_fast_len),
     atr |-> calculate_atr(d, sp.atr_len),
     rsi |-> calculate_rsi(Closes(d), sp.rsi_len),
     adx |-> adx[1], plus_di |-> adx[2], minus_di |-> adx[3]])

----------------------------------------------------------------------------
(* PullbackStrategy (src/src/strategy.py).                                 *)

\* _calculate_indicators before dropna: one row per bar.
IndicatorRows(d, sp) ==
    LET ema_fast == calculate_ema(Closes(d), sp.ema_fast_len)
        ema_slow == calculate_ema(Closes(d), sp.ema_slow_len)
        ema_trend == calculate_ema(Closes(d), sp.ema_trend_len)
        atr == calculate_atr(d, sp.atr_len)
        adx == calculate_adx(d, sp.adx_len)[1]
        rsi == calculate_rsi(Closes(d), sp.rsi_len)
    IN  [k \in 1 .. Len(d) |->
            [high |-> d[k].high, low |-> d[k].low, close |-> d[k].close,
             ema_fast |-> ema_fast[k], ema_slow |-> ema_slow[k],
             ema_trend |-> ema_trend[k], atr |-> atr[k], adx |-> adx[k],
             rsi |-> rsi[k]]]

HasNaN(row) ==
    \E x \in {row.high, row.low, row.close, row.ema_fast, row.ema_slow,
              row.ema_trend, row.atr, row.adx, row.rsi} : IsNaN(x)

RowComplete(row) == ~HasNaN(row)

\* self.df: the rows left by dropna.
StrategyFrame(d, sp) == SelectSeq(IndicatorRows(d, sp), RowComplete)

LongSetupAnyRsi(last_candle, prev_candle, sp) ==
    /\ Gt(last_candle.close, last_candle.ema_trend)
    /\ Gt(last_candle.ema_fast, last_candle.ema_slow)
    /\ Gt(last_candle.adx, sp.adx_threshold)
    /\ Le(prev_candle.low, prev_candle.ema_fast)
    /\ Gt(last_candle.close, last_candle.ema_fast)

LongSetup(last_candle, prev_candle, sp) ==
    /\ Gt(last_candle.close, last_candle.ema_trend)
    /\ Gt(last_candle.ema_fast, last_candle.ema_slow)
    /\ Gt(last_candle.adx, sp.adx_threshold)
    /\ Le(prev_candle.low, prev_candle.ema_fast)
    /\ Gt(last_candle.close, last_candle.ema_fast)
    /\ Lt(last_candle.rsi, sp.rsi_overbought)

ShortSetup(last_candle, prev_candle, sp) ==
    /\ Lt(last_candle.close, last_candle.ema_trend)
    /\ Lt(last_candle.ema_fast, last_candle.ema_slow)
    /\ Gt(last_candle.adx, sp.adx_threshold)
    /\ Ge(prev_candle.high, prev_candle.ema_fast)
    /\ Lt(last_candle.close, last_candle.ema_fast)
    /\ Gt(last_candle.rsi, sp.rsi_oversold)

\* generate_signal on the frame df; score is what the sentiment provider
\* answers if it is asked (only when a slug is configured).
generate_signal(df, sp, score) ==
    IF Len(df) < 2 THEN "HOLD"
    ELSE LET last_candle == df[Len(df)]
             prev_candle == df[Len(df) - 1]
         IN  IF /\ LongSetup(last_candle, prev_candle, sp)
                /\ (sp.slug => Ge(score, sp.sentiment_threshold))
             THEN "BUY"
             ELSE IF /\ ShortSetup(last_candle, prev_candle, sp)
                     /\ (sp.slug => Le(score, Neg(sp.sentiment_threshold)))
             THEN "SELL"
             ELSE "HOLD"

----------------------------------------------------------------------------
(* RiskManager (src/src/risk_manager.py).                                  *)

Pct(n) == Rat(n, 100)

\* Fallbacks of __init__ (lines 18-22).
risk_per_trade_fallback == Pct(1)

max_trade_value_fallback == 500

max_open_trades == 3

daily_loss_limit_pct == Pct(3)

consecutive_loss_limit == 3

\* The clamp of the volatility-adjusted risk fraction (line 154).
RiskFloor == Pct(1)

RiskCeil == Pct(10)

\* An optional argument: None, or a float.
None == [given |-> FALSE, v |-> Zero]

Some(x) == [given |-> TRUE, v |-> x]

\* self.account: None when get_account_info() failed, else the account entity.
NoAccount == [present |-> FALSE, equity |-> Zero]

Account(eq) == [present |-> TRUE, equity |-> eq]

\* reset_daily_stats_if_needed: the RiskState <<daily_pnl, consecutive_losses,
\* last_reset_date>> after the call.
ResetNeeded(now, last) == now > last

reset_daily_stats_if_needed(st, now) ==
    IF ResetNeeded(now, st.last_reset_date)
    THEN [daily_pnl |-> Zero, consecutive_losses |-> 0, last_reset_date |-> now]
    ELSE st

\* The three reject tests of can_open_new_trade, as the code evaluates them.
MaxOpenTradesReachedStrict(n) == n > max_open_trades

LossStreakReachedStrict(st) == st.consecutive_losses > consecutive_loss_limit

MaxOpenTradesReached(n) == n >= max_open_trades

LossStreakReached(st) == st.consecutive_losses >= consecutive_loss_limit

DailyLossLimitReached(st, acct) ==
    /\ acct.present
    /\ Le(st.daily_pnl, Neg(Mul(acct.equity, daily_loss_limit_pct)))

GateVerdictFailOpen(st, acct, queryOk, n) ==
    ~(queryOk /\ (MaxOpenTradesReached(n) \/ LossStreakReached(st)
                  \/ DailyLossLimitReached(st, acct)))

\* can_open_new_trade after the reset step: queryOk is whether
\* api.list_positions() returned (n positions) rather than raised.
GateVerdict(st, acct, queryOk, n) ==
    IF ~queryOk THEN FALSE
    ELSE IF MaxOpenTradesReached(n) THEN FALSE
    ELSE IF LossStreakReached(st) THEN FALSE
    ELSE IF DailyLossLimitReached(st, acct) THEN FALSE
    ELSE TRUE

StreakAfterLossOrFlat(n, pnl) == IF Le(pnl, Zero) THEN n + 1 ELSE 0

\* record_trade_close: the RiskState after the call.
StreakAfter(n, pnl) == IF Lt(pnl, Zero) THEN n + 1 ELSE 0

record_trade_close(st, pnl) ==
    [st EXCEPT !.daily_pnl = Add(st.daily_pnl, pnl),
               !.consecutive_losses = StreakAfter(st.consecutive_losses, pnl)]

\* A column of the pivot table of close prices (line 103): one float per
\* timestamp, NaN where the symbol has no bar there. NoColumn: the symbol is
\* not among the table's columns.
NoColumn == <<>>

\* The rows on which both columns hold a value (Series.corr drops the rest).
ValidPairs(x, y) ==
    SelectSeq([k \in 1 .. Len(x) |-> <<x[k], y[k]>>],
              LAMBDA p : ~IsNaN(p[1]) /\ ~IsNaN(p[2]))

UndefinedCorr == [defined |-> FALSE, sign |-> 0, sq |-> Zero]

\* The sum of p[k][a] * p[k][b], and of p[k][a], over the pairs from k on.
RECURSIVE SumProducts(_, _, _, _)
SumProducts(p, a, b, k) ==
    IF k > Len(p) THEN Zero
    ELSE Add(Mul(p[k][a], p[k][b]), SumProducts(p, a, b, k + 1))

RECURSIVE SumColumn(_, _, _)
SumColumn(p, a, k) ==
    IF k > Len(p) THEN Zero ELSE Add(p[k][a], SumColumn(p, a, k + 1))

\* n * sum(x*y) - sum(x) * sum(y) over the pairs p, by the columns a and b of
\* the pairs (a = b gives n times the sum of squared deviations).
CoMoment(p, a, b) ==
    Sub(Mul(Int2R(Len(p)), SumProducts(p, a, b, 1)),
        Mul(SumColumn(p, a, 1), SumColumn(p, b, 1)))

\* Line 114, Series.corr: Pearson's coefficient over the valid pairs, NaN
\* (undefined) when no pair is left or a column does not vary. The
\* coefficient r is kept as its sign and its square, r being irrational in
\* general.
PearsonOf(p) ==
    Bind(CoMoment(p, 1, 1), LAMBDA vx :
    Bind(CoMoment(p, 2, 2), LAMBDA vy :
    IF Len(p) = 0 \/ vx = Zero \/ vy = Zero
    THEN UndefinedCorr
    ELSE Bind(CoMoment(p, 1, 2), LAMBDA cov :
         [defined |-> TRUE,
          sign |-> SignInt(cov[1]),
          sq |-> Div(Mul(cov, cov), Mul(vx, vy))])))

Corr(x, y) == PearsonOf(ValidPairs(x, y))

\* Line 119: abs(correlation) >= correlation_threshold.
HighlyCorrelated(c, threshold) ==
    IF Le(threshold, Zero) THEN TRUE ELSE Ge(c.sq, Mul(threshold, threshold))

RECURSIVE CorrelationLoopFailClosed(_, _, _, _, _)
CorrelationLoopFailClosed(symbol, open_positions_symbols, close_prices, threshold, k) ==
    IF k > Len(open_positions_symbols) THEN TRUE
    ELSE IF close_prices[open_positions_symbols[k]] = NoColumn THEN FALSE
    ELSE Bind(Corr(close_prices[symbol],
                   close_prices[open_positions_symbols[k]]),
              LAMBDA correlation :
         IF ~correlation.defined THEN FALSE
         ELSE IF HighlyCorrelated(correlation, threshold) THEN FALSE
         ELSE CorrelationLoopFailClosed(symbol, open_positions_symbols,
                                        close_prices, threshold, k + 1))

\* Lines 109-123: the loop over the open symbols, from the k-th on.
RECURSIVE CorrelationLoop(_, _, _, _, _)
CorrelationLoop(symbol, open_positions_symbols, close_prices, threshold, k) ==
    IF k > Len(open_positions_symbols) THEN TRUE
    ELSE IF close_prices[open_positions_symbols[k]] = NoColumn
    THEN CorrelationLoop(symbol, open_positions_symbols, close_prices,
                         threshold, k + 1)
    ELSE Bind(Corr(close_prices[symbol],
                   close_prices[open_positions_symbols[k]]),
              LAMBDA correlation :
         IF ~correlation.defined
         THEN CorrelationLoop(symbol, open_positions_symbols, close_prices,
                              threshold, k + 1)
         ELSE IF HighlyCorrelated(correlation, threshold) THEN FALSE
         ELSE CorrelationLoop(symbol, open_positions_symbols, close_prices,
                              threshold, k + 1))

\* What get_crypto_bars gave the correlation check (line 96): it raised, it
\* returned None or an empty frame, or it returned bars that pivot to the
\* columns close_prices.
NoColumns == [s \in {} |-> NoColumn]

FetchRaised == [outcome |-> "raised", close_prices |-> NoColumns]

FetchEmpty == [outcome |-> "empty", close_prices |-> NoColumns]

FetchTable(close_prices) == [outcome |-> "table", close_prices |-> close_prices]

\* check_correlation: TRUE when the candidate may be traded.
check_correlation(symbol, open_positions_symbols, fetch, threshold) ==
    IF open_positions_symbols = <<>> THEN TRUE
    ELSE IF fetch.outcome = "raised" THEN TRUE
    ELSE IF fetch.outcome = "empty" THEN TRUE
    ELSE IF fetch.close_prices[symbol] = NoColumn THEN TRUE
    ELSE CorrelationLoop(symbol, open_positions_symbols, fetch.close_prices,
                         threshold, 1)

EffectiveRiskUnclamped(cfg, cur, avg, numpy) ==
    IF cur.given /\ avg.given /\ Gt(avg.v, Zero)
    THEN [raises |-> ~numpy /\ Div(cur.v, avg.v) = Zero,
          risk |-> Div(cfg.risk_per_trade, Div(cur.v, avg.v))]
    ELSE [raises |-> FALSE, risk |-> cfg.risk_per_trade]

\* Lines 144-154: the risk fraction used for sizing. raises is TRUE when the
\* division by volatility_ratio raises ZeroDivisionError (Python floats; numpy
\* floats yield inf instead).
EffectiveRisk(cfg, cur, avg, numpy) ==
    IF cur.given /\ avg.given /\ Gt(avg.v, Zero)
    THEN LET volatility_ratio == Div(cur.v, avg.v)
         IN  IF ~numpy /\ volatility_ratio = Zero
             THEN [raises |-> TRUE, risk |-> cfg.risk_per_trade]
             ELSE [raises |-> FALSE,
                   risk |-> PyMax(RiskFloor,
                                  PyMin(RiskCeil,
                                        Div(cfg.risk_per_trade, volatility_ratio)))]
    ELSE [raises |-> FALSE, risk |-> cfg.risk_per_trade]

CapQuantityNoClip(cfg, quantity, entry_price) == quantity

\* Lines 168-171: the hard cap on the position value.
CapQuantity(cfg, quantity, entry_price) ==
    IF Gt(Mul(quantity, entry_price), cfg.max_trade_value)
    THEN Div(cfg.max_trade_value, entry_price)
    ELSE quantity

InvalidSizingInputEntryOnly(acct, entry_price, stop_loss_price) ==
    ~acct.present \/ Le(entry_price, Zero)

InvalidSizingInput(acct, entry_price, stop_loss_price) ==
    ~acct.present \/ Le(entry_price, Zero) \/ Le(stop_loss_price, Zero)

\* calculate_position_size: the returned quantity, with the path taken and
\* the locals effective_risk_per_trade and the uncapped quantity.
calculate_position_size(acct, cfg, entry_price, stop_loss_price, cur, avg, numpy) ==
    IF InvalidSizingInput(acct, entry_price, stop_loss_price)
    THEN [quantity |-> Zero, path |-> "invalid",
          effective_risk |-> Zero, uncapped |-> Zero]
    ELSE LET eff == EffectiveRisk(cfg, cur, avg, numpy)
             cash_to_risk == Mul(acct.equity, eff.risk)
             sl_distance_per_unit == AbsR(Sub(entry_price, stop_loss_price))
             quantity == Div(cash_to_risk, sl_distance_per_unit)
             capped == CapQuantity(cfg, quantity, entry_price)
         IN  IF eff.raises
             THEN [quantity |-> Zero, path |-> "error",
                   effective_risk |-> Zero, uncapped |-> Zero]
             ELSE IF sl_distance_per_unit = Zero
             THEN [quantity |-> Zero, path |-> "zero_sl",
                   effective_risk |-> eff.risk, uncapped |-> Zero]
             ELSE [quantity |-> capped,
                   path |-> IF capped = quantity THEN "sized" ELSE "clipped",
                   effective_risk |-> eff.risk, uncapped |-> quantity]

----------------------------------------------------------------------------
(* The Risk Manager as a state machine: one instance, the wall clock and   *)
(* the brokerage's position list around it.                                *)

\* Bounds of the model.
MaxDay == 2

MaxStreak == 4

MaxPositions == 3

PnlCap == 60

Equities == {Int2R(-1000), Zero, Int2R(1000), Int2R(100000)}

Accounts == {NoAccount} \cup {Account(e) : e \in Equities}

DefaultConfig ==
    [risk_per_trade |-> risk_per_trade_fallback,
     max_trade_value |-> Int2R(max_trade_value_fallback)]

Configs ==
    [risk_per_trade : {risk_per_trade_fallback, Pct(2), Pct(5)},
     max_trade_value : {Int2R(max_trade_value_fallback), Int2R(100000)}]

ClosePnls == {Int2R(-20), Zero, Int2R(25)}

EntryPrices == {Int2R(-5), Zero, Int2R(100), Int2R(25000)}

StopPrices == {Int2R(-5), Zero, Int2R(90), Int2R(100), Int2R(24500), Int2R(24950)}

AtrArgs == {None, Some(Zero), Some(Int2R(-250)), Some(Int2R(250)),
            Some(Int2R(500)), Some(Int2R(1000)), Some(Int2R(20000)), Some(NaN)}

RiskState ==
    [daily_pnl |-> daily_pnl, consecutive_losses |-> consecutive_losses,
     last_reset_date |-> last_reset_date]

NoCall ==
    [op |-> "init", allowed |-> FALSE, queryOk |-> TRUE, pnl |-> Zero,
     date |-> 0, n |-> 0,
     entry_price |-> Zero, stop_loss_price |-> Zero,
     current_atr |-> None, average_atr |-> None, numpy |-> FALSE,
     quantity |-> Zero, path |-> "none", effective_risk |-> Zero,
     uncapped |-> Zero,
     symbol |-> "", open_positions_symbols |-> <<>>, fetch |-> FetchEmpty,
     correlation_threshold |-> Zero]

SetRiskState(st) ==
    /\ daily_pnl' = st.daily_pnl
    /\ consecutive_losses' = st.consecutive_losses
    /\ last_reset_date' = st.last_reset_date

\* The history variables follow the RiskState.
History(before, after, won) ==
    LET reset == after.last_reset_date # before.last_reset_date
        hit == after.consecutive_losses >= consecutive_loss_limit
    IN  /\ tripped' = (hit \/ (tripped /\ ~reset))
        /\ won_since' = (~hit /\ ~reset /\ (won_since \/ (tripped /\ won)))

\* Nothing was asked of a strategy yet.
NoSignal ==
    [signal |-> "none", position |-> "none", score |-> Zero,
     consulted |-> FALSE]

\* No strategy object has been constructed, no agent created.
StIdle ==
    columns = <<>> /\ strategy = [unused |-> TRUE] /\ last_signal = NoSignal

\* No decision cycle has begun.
NoCycle ==
    [pc |-> "while", n |-> 0, positions |-> {}, order_symbols |-> {},
     next |-> 0, submitted |-> {}]

AgIdle ==
    /\ is_running = FALSE /\ agent_thread = 0
    /\ threads = <<>> /\ caller = "idle"
    /\ cycle = NoCycle

\* The state of the backtest is not used by the Risk Manager machine.
BtIdle ==
    /\ data = <<>> /\ data_alt = <<>> /\ bar = 0
    /\ params = [unused |-> TRUE] /\ ledger = [unused |-> TRUE]
    /\ ledger_alt = [unused |-> TRUE] /\ event = "none"
    /\ StIdle /\ AgIdle

RMInit ==
    /\ account \in {NoAccount, Account(Int2R(1000))}
    /\ config = DefaultConfig
    /\ daily_pnl = Zero
    /\ consecutive_losses = 0
    /\ last_reset_date = 0
    /\ today = 0
    /\ open_positions \in 0 .. MaxPositions
    /\ call = NoCall
    /\ tripped = FALSE
    /\ won_since = FALSE
    /\ BtIdle

\* The wall clock passes midnight UTC.
Midnight ==
    /\ today < MaxDay
    /\ today' = today + 1
    /\ UNCHANGED <<account, daily_pnl, consecutive_losses, last_reset_date,
                   open_positions, call, config, tripped, won_since, btVars,
                   stVars, agVars>>

\* The brokerage opens or closes positions.
BrokerPositions ==
    /\ \E n \in 0 .. MaxPositions : n # open_positions /\ open_positions' = n
    /\ UNCHANGED <<account, daily_pnl, consecutive_losses, last_reset_date,
                   today, call, config, tripped, won_since, btVars,
                   stVars, agVars>>

ResetDailyStatsIfNeeded ==
    LET st == reset_daily_stats_if_needed(RiskState, today)
    IN  /\ SetRiskState(st)
        /\ History(RiskState, st, FALSE)
        /\ call' = [NoCall EXCEPT !.op = "reset_daily_stats_if_needed"]
        /\ UNCHANGED <<account, today, open_positions, config, btVars,
                   stVars, agVars>>

CanOpenNewTrade ==
    \E queryOk \in BOOLEAN :
        LET st == reset_daily_stats_if_needed(RiskState, today)
        IN  /\ SetRiskState(st)
            /\ History(RiskState, st, FALSE)
            /\ call' = [NoCall EXCEPT
                            !.op = "can_open_new_trade",
                            !.queryOk = queryOk,
                            !.date = today, !.n = open_positions,
                            !.allowed = GateVerdict(st, account, queryOk,
                                                    open_positions)]
            /\ UNCHANGED <<account, today, open_positions, config, btVars,
                   stVars, agVars>>

RecordTradeClose ==
    \E pnl \in ClosePnls :
        LET st == record_trade_close(RiskState, pnl)
        IN  /\ st.consecutive_losses <= MaxStreak
            /\ AbsInt(st.daily_pnl[1]) <= PnlCap * st.daily_pnl[2]
            /\ SetRiskState(st)
            /\ History(RiskState, st, ~Lt(pnl, Zero))
            /\ call' = [NoCall EXCEPT !.op = "record_trade_close", !.pnl = pnl]
            /\ UNCHANGED <<account, today, open_positions, config, btVars,
                   stVars, agVars>>

\* calculate_position_size applied to the arguments args.
Sized(args) ==
    LET r == calculate_position_size(account, config, args.entry_price,
                                     args.stop_loss_price, args.current_atr,
                                     args.average_atr, args.numpy)
    IN  [args EXCEPT !.op = "calculate_position_size",
                     !.quantity = r.quantity, !.path = r.path,
                     !.effective_risk = r.effective_risk,
                     !.uncapped = r.uncapped]

SizingArgs(entries, stops, atrs, numpys) ==
    {[NoCall EXCEPT !.op = "args", !.entry_price = e, !.stop_loss_price = s,
                    !.current_atr = c, !.average_atr = a, !.numpy = n] :
        e \in entries, s \in stops, c \in atrs, a \in atrs, n \in numpys}

\* Within the Risk Manager machine: sizing calls between the other calls.
CalculatePositionSize ==
    /\ \E args \in SizingArgs({Int2R(100)}, {Int2R(90), Int2R(100)}, {None},
                                {FALSE}) :
           call' = Sized(args)
    /\ UNCHANGED <<account, daily_pnl, consecutive_losses, last_reset_date,
                   today, open_positions, config, tripped, won_since, btVars,
                   stVars, agVars>>

\* The symbols of the correlation check: the candidate and the symbols that
\* can be open.
Candidate == "BTC/USD"

OpenSymbols == {"ETH/USD", "SOL/USD"}

MaxOpenSymbols == 2

OpenSymbolLists ==
    UNION {[1 .. n -> OpenSymbols] : n \in 0 .. MaxOpenSymbols}

\* Close-price columns over three timestamps.
Rising == <<Int2R(1), Int2R(2), Int2R(3)>>

Falling == <<Int2R(3), Int2R(2), Int2R(1)>>

Unmoved == <<Int2R(2), Int2R(2), Int2R(2)>>

Zigzag == <<Int2R(1), Int2R(3), Int2R(2)>>

Sparse == <<Int2R(1), NaN, NaN>>

Partial == <<NaN, Int2R(2), Int2R(3)>>

CandidateColumns == {Rising, Zigzag, NoColumn}

OpenColumns == {Rising, Falling, Unmoved, Zigzag, Sparse, Partial, NoColumn}

\* The pivot tables of a non-empty frame: at least one symbol has a column.
Tables(candidateColumns, openColumns) ==
    {t \in [{Candidate} \cup OpenSymbols -> candidateColumns \cup openColumns] :
        /\ t[Candidate] \in candidateColumns
        /\ \A o \in OpenSymbols : t[o] \in openColumns
        /\ \E o \in DOMAIN t : t[o] # NoColumn}

Fetches(candidateColumns, openColumns) ==
    {FetchRaised, FetchEmpty}
        \cup {FetchTable(t) : t \in Tables(candidateColumns, openColumns)}

\* A table with bars of the candidate only.
CandidateOnly ==
    [s \in {Candidate} \cup OpenSymbols |->
        IF s = Candidate THEN Rising ELSE NoColumn]

CorrelationThresholds == {Rat(7, 10), Rat(1, 4)}

CorrelationArgs(lists, fetches, thresholds) ==
    {[NoCall EXCEPT !.op = "correlation_args", !.symbol = Candidate,
                    !.open_positions_symbols = l, !.fetch = f,
                    !.correlation_threshold = t] :
        l \in lists, f \in fetches, t \in thresholds}

\* check_correlation applied to the arguments args.
Correlated(args) ==
    [args EXCEPT !.op = "check_correlation",
                 !.allowed = check_correlation(args.symbol,
                                               args.open_positions_symbols,
                                               args.fetch,
                                               args.correlation_threshold)]

\* Within the Risk Manager machine: correlation checks between the other
\* calls, on the inputs that need no coefficient (SpecCorr has the others).
CheckCorrelation ==
    /\ \E args \in CorrelationArgs({<<"ETH/USD">>},
                                     {FetchRaised, FetchTable(CandidateOnly)},
                                     {Rat(7, 10)}) :
           call' = Correlated(args)
    /\ UNCHANGED <<account, daily_pnl, consecutive_losses, last_reset_date,
                   today, open_positions, config, tripped, won_since, btVars,
                   stVars, agVars>>

RMNext ==
    \/ Midnight
    \/ BrokerPositions
    \/ ResetDailyStatsIfNeeded
    \/ CanOpenNewTrade
    \/ RecordTradeClose
    \/ CalculatePositionSize
    \/ CheckCorrelation

SpecRM == RMInit /\ [][RMNext]_vars

----------------------------------------------------------------------------
(* calculate_position_size over its whole input domain: the account, the   *)
(* configuration and the arguments are drawn first, then the call is made. *)

SizeInit ==
    /\ account \in Accounts
    /\ config \in Configs
    /\ daily_pnl = Zero
    /\ consecutive_losses = 0
    /\ last_reset_date = 0
    /\ today = 0
    /\ open_positions = 0
    /\ call \in SizingArgs(EntryPrices, StopPrices, AtrArgs, BOOLEAN)
    /\ tripped = FALSE
    /\ won_since = FALSE
    /\ BtIdle

SizeCall ==
    /\ call.op = "args"
    /\ call' = Sized(call)
    /\ UNCHANGED <<account, daily_pnl, consecutive_losses, last_reset_date,
                   today, open_positions, config, tripped, won_since, btVars,
                   stVars, agVars>>

SpecSize == SizeInit /\ [][SizeCall]_vars

----------------------------------------------------------------------------
(* check_correlation over its input domain: the candidate, the open        *)
(* symbols, the outcome of the data fetch and the threshold are drawn      *)
(* first, then the call is made.                                           *)

CorrInit ==
    /\ account = Account(Int2R(1000))
    /\ config = DefaultConfig
    /\ daily_pnl = Zero
    /\ consecutive_losses = 0
    /\ last_reset_date = 0
    /\ today = 0
    /\ open_positions = 0
    /\ call \in CorrelationArgs(OpenSymbolLists,
                                Fetches(CandidateColumns, OpenColumns),
                                CorrelationThresholds)
    /\ tripped = FALSE
    /\ won_since = FALSE
    /\ BtIdle

CorrCall ==
    /\ call.op = "correlation_args"
    /\ call' = Correlated(call)
    /\ UNCHANGED <<account, daily_pnl, consecutive_losses, last_reset_date,
                   today, open_positions, config, tripped, won_since, btVars,
                   stVars, agVars>>

SpecCorr == CorrInit /\ [][CorrCall]_vars

----------------------------------------------------------------------------
(* Properties of calculate_position_size (checked under SpecSize).         *)

SizeReturned == call.op = "calculate_position_size"

ValidSizingInput ==
    /\ account.present
    /\ Gt(call.entry_price, Zero)
    /\ Gt(call.stop_loss_price, Zero)

AtrAdaptive ==
    /\ call.current_atr.given
    /\ call.average_atr.given
    /\ Gt(call.average_atr.v, Zero)

\* C4: for valid inputs the returned quantity times entry_price never
\* exceeds max_trade_value, and when the risk-based notional exceeds the cap
\* the result is exactly max_trade_value / entry_price.
C4_RiskCap ==
    (SizeReturned /\ ValidSizingInput) =>
        /\ Le(Mul(call.quantity, call.entry_price), config.max_trade_value)
        /\ Gt(Mul(call.uncapped, call.entry_price), config.max_trade_value)
               => call.quantity = Div(config.max_trade_value, call.entry_price)

\* The spec's scenario: entry 25000, stop 24500, equity 100000, risk 0.02,
\* cap 500: the risk-based quantity 4 is clipped to 0.02.
C4_Witness ==
    /\ SizeReturned
    /\ ValidSizingInput
    /\ call.path = "clipped"
    /\ call.uncapped = Int2R(4)
    /\ call.quantity = Rat(2, 100)

\* C5: with both ATRs supplied and average_atr > 0 the risk fraction used
\* lies in [0.01, 0.10] for every current_atr; otherwise it is the
\* configured risk_per_trade.
C5_VolatilityClamp ==
    (SizeReturned /\ call.path \in {"sized", "clipped", "zero_sl"}) =>
        IF AtrAdaptive
        THEN /\ Ge(call.effective_risk, RiskFloor)
             /\ Le(call.effective_risk, RiskCeil)
        ELSE call.effective_risk = config.risk_per_trade

\* A call whose unclamped fraction risk / (current/average) is above 0.10.
C5_Witness ==
    /\ SizeReturned
    /\ call.path \in {"sized", "clipped"}
    /\ AtrAdaptive
    /\ Gt(Div(config.risk_per_trade,
              Div(call.current_atr.v, call.average_atr.v)), RiskCeil)
    /\ call.effective_risk = RiskCeil

\* C6: the result is 0 whenever entry_price <= 0, stop_loss_price <= 0, no
\* account is available or the stop distance is zero.
C6_InvalidGivesZero ==
    (/\ SizeReturned
     /\ \/ Le(call.entry_price, Zero)
        \/ Le(call.stop_loss_price, Zero)
        \/ ~account.present
        \/ call.entry_price = call.stop_loss_price)
        => call.quantity = Zero

\* A positive stop equal to a positive entry, and a non-positive stop with a
\* funded account: both reached.
C6_Witness ==
    /\ SizeReturned
    /\ account.present
    /\ Gt(account.equity, Zero)
    /\ Gt(call.entry_price, Zero)
    /\ Le(call.stop_loss_price, Zero)
    /\ call.path = "invalid"
    /\ call.quantity = Zero

\* C7: the returned quantity is never negative. (Violated: a negative
\* equity gives a negative cash_to_risk and a negative quantity.)
C7_NeverNegative == SizeReturned => Ge(call.quantity, Zero)

----------------------------------------------------------------------------
(* Properties of the portfolio gate (checked under SpecRM).                *)

GateReturned == call.op = "can_open_new_trade"

\* The three reject conditions, on the state the gate call left.
RejectByCount == call.n >= max_open_trades

RejectByStreak == consecutive_losses >= consecutive_loss_limit

RejectByDailyLoss ==
    /\ account.present
    /\ Le(daily_pnl, Neg(Mul(account.equity, daily_loss_limit_pct)))

\* C8 as stated: the gate resets first and returns true exactly when none of
\* the three reject conditions holds. (Violated: a failed position query
\* rejects although none of them holds.)
C8_GateExactlyThreeRejects ==
    GateReturned =>
        /\ last_reset_date = call.date
        /\ call.allowed <=> ~(RejectByCount \/ RejectByStreak \/ RejectByDailyLoss)

\* C8 amended: the gate resets first and returns true exactly when the
\* position query succeeded and none of the three reject conditions holds,
\* the daily-loss test being applied only when an account is available.
C8_GateAmended ==
    GateReturned =>
        /\ last_reset_date = call.date
        /\ call.allowed <=>
               (call.queryOk /\ ~(RejectByCount \/ RejectByStreak
                                   \/ RejectByDailyLoss))

\* The count is exactly at the limit and nothing else rejects.
C8_Witness ==
    /\ GateReturned
    /\ call.queryOk
    /\ call.n = max_open_trades
    /\ ~RejectByStreak
    /\ ~RejectByDailyLoss
    /\ ~call.allowed
    /\ call.date > 0

\* C9 as stated: once the streak has reached the limit, every gate call
\* returns false until the daily reset, whatever happens in between.
\* (Violated: a record_trade_close with pnl >= 0 zeroes the streak.)
C9_LatchedUntilNewDay == (GateReturned /\ tripped) => ~call.allowed

\* C9 amended: once the streak has reached the limit, every gate call returns
\* false until the daily reset or a record_trade_close with pnl >= 0.
C9_LatchedUntilResetOrWin ==
    (GateReturned /\ tripped /\ ~won_since) => ~call.allowed

\* A gate call after the limit was passed by a further loss, rejected by the
\* streak alone.
C9_Witness ==
    /\ GateReturned
    /\ tripped
    /\ ~won_since
    /\ consecutive_losses = consecutive_loss_limit + 1
    /\ call.queryOk
    /\ ~RejectByCount
    /\ ~RejectByDailyLoss
    /\ ~call.allowed

\* C10: a gate call whose position query fails returns false and leaves
\* daily_pnl and consecutive_losses as the daily-reset step left them.
C10_FailSafe ==
    [][(call' # call /\ call'.op = "can_open_new_trade" /\ ~call'.queryOk) =>
          /\ ~call'.allowed
          /\ RiskState' = reset_daily_stats_if_needed(RiskState, today)]_vars

\* A failed query with nothing else to reject.
C10_Witness ==
    /\ GateReturned
    /\ ~call.queryOk
    /\ ~call.allowed
    /\ ~RejectByCount
    /\ ~RejectByStreak
    /\ ~RejectByDailyLoss
    /\ daily_pnl # Zero

----------------------------------------------------------------------------
(* run_backtest (src/backtest.py): the bar loop over a price series.       *)

\* Bounds and inputs of the model.
MaxBars == 6

FlatBar(c) == [high |-> Int2R(c), low |-> Int2R(c), close |-> Int2R(c)]

WideBar(c, w) ==
    [high |-> Int2R(c + w), low |-> Int2R(c - w), close |-> Int2R(c)]

BarAlphabet == {FlatBar(6), FlatBar(16), WideBar(10, 2)}

Series == [1 .. MaxBars -> BarAlphabet]

\* strategy_params, with short indicator lengths so that a series of MaxBars
\* bars passes the warm-up.
StrategyParams ==
    [ema_fast_len |-> 2, ema_slow_len |-> 3, ema_trend_len |-> 2,
     atr_len |-> 1, adx_len |-> 1, rsi_len |-> 3,
     adx_threshold |-> Int2R(25), rsi_overbought |-> Int2R(70),
     rsi_oversold |-> Int2R(30), sentiment_threshold |-> Rat(1, 10),
     slug |-> FALSE]

\* What get_sentiment_score may answer: a value in [-1, 1], 0 on failure.
SentimentScores == {Rat(-1, 2), Zero, Rat(1, 2)}

\* rr_ratio and initial_capital are plain arguments of run_backtest; nothing
\* in it restricts their values.
DefaultRun ==
    [rr_ratio |-> Int2R(1), initial_capital |-> Int2R(100),
     strategy |-> StrategyParams]

RunParams ==
    {DefaultRun, [DefaultRun EXCEPT !.rr_ratio = Zero],
     [DefaultRun EXCEPT !.rr_ratio = Int2R(-5)]}

\* The runs explored: the parameters and what get_account_info returned to
\* the Risk Manager's constructor.
BacktestRuns ==
    (RunParams \X {Account(Int2R(1000))}) \cup {<<DefaultRun, NoAccount>>}

\* risk_params as parsed by RiskManager.__init__.
BacktestConfig ==
    [risk_per_trade |-> Pct(5),
     max_trade_value |-> Int2R(max_trade_value_fallback)]

StopAtrMultipleAbove == Rat(-3, 2)

StopAtrMultiple == Rat(3, 2)

NoTrade ==
    [entry_bar |-> 0, entry_price |-> Zero, quantity |-> Zero,
     stop_loss |-> Zero, take_profit |-> Zero, pnl |-> Zero]

\* The portfolio row carried from bar to bar, active_trade, trades, and
\* client.account.equity (the simulated account); opened counts the entries
\* made and closes_recorded the calls of risk_manager.record_trade_close the
\* loop has made.
InitialLedger(prm) ==
    [cash |-> prm.initial_capital, position_value |-> Zero,
     total |-> prm.initial_capital, active |-> FALSE, trade |-> NoTrade,
     trades |-> <<>>, opened |-> 0, sim_equity |-> prm.initial_capital,
     closes_recorded |-> 0]

NoEvent(kind) ==
    [kind |-> kind, bar |-> 0, exit |-> "none", signal |-> "none",
     entry |-> "none", requested |-> Zero, cash_before_entry |-> Zero]

\* data['atr'].mean() over the whole series (lines 43-44).
AverageAtr(d, sp) ==
    LET atr == calculate_atr(d, sp.atr_len)
    IN  Div(SumRange(atr, 1, Len(atr)), Int2R(Len(atr)))

BreachedStrictly(trade, current_price) ==
    \/ Lt(current_price, trade.stop_loss)
    \/ Gt(current_price, trade.take_profit)

\* Line 85: the stop-loss / take-profit test on the bar's close.
Breached(trade, current_price) ==
    \/ Le(current_price, trade.stop_loss)
    \/ Ge(current_price, trade.take_profit)

UpdateActiveTradeCreditAtClose(led, i, current_price) ==
    IF ~led.active THEN led
    ELSE IF Breached(led.trade, current_price)
    THEN LET exit_price == IF Le(current_price, led.trade.stop_loss)
                           THEN led.trade.stop_loss
                           ELSE led.trade.take_profit
             pnl == Mul(Sub(exit_price, led.trade.entry_price),
                        led.trade.quantity)
         IN  [led EXCEPT
                 !.cash = Add(led.cash,
                              Mul(led.trade.quantity, current_price)),
                 !.position_value = Zero,
                 !.active = FALSE,
                 !.trade = NoTrade,
                 !.trades = Append(led.trades,
                                   [led.trade EXCEPT !.pnl = pnl] @@
                                   [exit_price |-> exit_price, exit_bar |-> i])]
    ELSE [led EXCEPT
             !.position_value = Mul(current_price, led.trade.quantity),
             !.trade.pnl = Mul(Sub(current_price, led.trade.entry_price),
                               led.trade.quantity)]

UpdateActiveTradeStaleValue(led, i, current_price) ==
    IF ~led.active THEN led
    ELSE IF Breached(led.trade, current_price)
    THEN [led EXCEPT
             !.cash = Add(led.cash,
                          Mul(led.trade.quantity,
                              IF Le(current_price, led.trade.stop_loss)
                              THEN led.trade.stop_loss
                              ELSE led.trade.take_profit)),
             !.active = FALSE,
             !.trade = NoTrade,
             !.trades = Append(led.trades,
                               led.trade @@
                               [exit_price |-> current_price, exit_bar |-> i])]
    ELSE [led EXCEPT
             !.position_value = Mul(current_price, led.trade.quantity)]

\* Lines 80-98: mark the open trade to market and exit on a breach. The
\* exit appends the trade to trades; it makes no call to the Risk Manager.
UpdateActiveTrade(led, i, current_price) ==
    IF ~led.active THEN led
    ELSE IF Breached(led.trade, current_price)
    THEN LET exit_price == IF Le(current_price, led.trade.stop_loss)
                           THEN led.trade.stop_loss
                           ELSE led.trade.take_profit
             pnl == Mul(Sub(exit_price, led.trade.entry_price),
                        led.trade.quantity)
         IN  [led EXCEPT
                 !.cash = Add(led.cash, Mul(led.trade.quantity, exit_price)),
                 !.position_value = Zero,
                 !.active = FALSE,
                 !.trade = NoTrade,
                 !.trades = Append(led.trades,
                                   [led.trade EXCEPT !.pnl = pnl] @@
                                   [exit_price |-> exit_price, exit_bar |-> i])]
    ELSE [led EXCEPT
             !.position_value = Mul(current_price, led.trade.quantity),
             !.trade.pnl = Mul(Sub(current_price, led.trade.entry_price),
                               led.trade.quantity)]

ExitKind(led, current_price) ==
    IF led.active /\ Breached(led.trade, current_price)
    THEN (IF Le(current_price, led.trade.stop_loss) THEN "stop" ELSE "target")
    ELSE "none"

CashCoversAlways(cash, quantity, entry_price) == TRUE

\* Line 124: the entry is taken only if cash exceeds the notional.
CashCovers(cash, quantity, entry_price) ==
    Gt(cash, Mul(quantity, entry_price))

FlatForEntryAlways(led) == TRUE

\* Line 101: the entry signal is evaluated only without an active trade.
FlatForEntry(led) == ~led.active

\* Lines 114-135: a BUY signal at entry_price with the frame's last ATR.
\* prev is the ledger of the previous bar, led the ledger after the exit
\* step, average_atr the value computed before the loop.
EnterOnBuy(entry_price, last_atr, prev, led, i, acct, cfg, prm, average_atr) ==
    Bind(Sub(entry_price, Mul(StopAtrMultiple, last_atr)),
         LAMBDA stop_loss_price :
    Bind(calculate_position_size(acct, cfg, entry_price, stop_loss_price,
                                 Some(last_atr), Some(average_atr),
                                 TRUE).quantity,
         LAMBDA quantity :
    Bind([led EXCEPT !.sim_equity = Add(prev.cash, prev.position_value)],
         LAMBDA seen :
    Bind([NoEvent("bar") EXCEPT !.signal = "BUY",
                                !.requested = quantity,
                                !.cash_before_entry = led.cash],
         LAMBDA ev :
    IF ~Gt(quantity, Zero)
    THEN [ledger |-> seen, event |-> [ev EXCEPT !.entry = "rejected_size"]]
    ELSE IF ~CashCovers(led.cash, quantity, entry_price)
    THEN [ledger |-> seen, event |-> [ev EXCEPT !.entry = "rejected_cash"]]
    ELSE [ledger |->
             [seen EXCEPT
                 !.active = TRUE,
                 !.trade =
                     [entry_bar |-> i,
                      entry_price |-> entry_price,
                      quantity |-> quantity,
                      stop_loss |-> stop_loss_price,
                      take_profit |->
                          Add(entry_price,
                              Mul(prm.rr_ratio,
                                  Sub(entry_price, stop_loss_price))),
                      pnl |-> Zero],
                 !.opened = led.opened + 1,
                 !.cash = Sub(led.cash, Mul(quantity, entry_price)),
                 !.position_value = Mul(quantity, entry_price)],
          event |-> [ev EXCEPT !.entry = "opened"]]))))

\* Lines 101-135: the entry attempt on bar i.
CheckNewEntry(d, prev, led, i, acct, cfg, prm, average_atr, score) ==
    IF ~FlatForEntry(led)
    THEN [ledger |-> led, event |-> NoEvent("bar")]
    ELSE Bind(StrategyFrame(SubSeq(d, 1, i + 1), prm.strategy), LAMBDA df :
         Bind(IF df = <<>> THEN "none"
              ELSE generate_signal(df, prm.strategy, score),
              LAMBDA signal :
         IF signal # "BUY"
         THEN [ledger |-> led,
               event |-> [NoEvent("bar") EXCEPT !.signal = signal]]
         ELSE EnterOnBuy(d[i + 1].close, df[Len(df)].atr, prev, led, i,
                         acct, cfg, prm, average_atr)))

\* One iteration of the loop (lines 70-138) for bar i of the series d.
BacktestBar(d, led, i, acct, cfg, prm, average_atr, score) ==
    Bind(CheckNewEntry(d, led, UpdateActiveTrade(led, i, d[i + 1].close), i,
                       acct, cfg, prm, average_atr, score),
         LAMBDA r :
    [ledger |-> [r.ledger EXCEPT
                    !.total = Add(r.ledger.cash, r.ledger.position_value)],
     event |-> [r.event EXCEPT !.bar = i,
                               !.exit = ExitKind(led, d[i + 1].close)]])

ScoresFor(sp) == IF sp.slug THEN SentimentScores ELSE {Zero}

\* The Risk Manager of a backtest: constructed at line 31 from a risk_params
\* that carries the config object (the only keyword __init__ accepts), and
\* never called again except for sizing.
BtRiskManager ==
    /\ config = BacktestConfig
    /\ daily_pnl = Zero
    /\ consecutive_losses = 0
    /\ last_reset_date = 0
    /\ today = 0
    /\ open_positions = 0
    /\ call = NoCall
    /\ tripped = FALSE
    /\ won_since = FALSE

BTInit ==
    /\ data \in Series \cup {<<>>}
    /\ data_alt = <<>>
    /\ \E run \in BacktestRuns :
           /\ params = run[1]
           /\ account = run[2]
    /\ BtRiskManager
    /\ StIdle
    /\ AgIdle
    /\ bar = params.strategy.ema_trend_len
    /\ ledger = InitialLedger(params)
    /\ ledger_alt = InitialLedger(params)
    /\ event = NoEvent("start")

\* Lines 34-36: no bars were fetched.
AbortNoData ==
    /\ data = <<>>
    /\ event.kind = "start"
    /\ event' = NoEvent("aborted")
    /\ UNCHANGED <<rmVars, stVars, agVars, data, data_alt, params, bar,
                   ledger, ledger_alt>>

\* One pass through the loop body, for the run over data and, when a second
\* series is compared, for the run over data_alt.
ProcessBar ==
    /\ bar < Len(data)
    /\ \E score \in ScoresFor(params.strategy) :
           \E r \in {BacktestBar(data, ledger, bar, account, config, params,
                                AverageAtr(data, params.strategy), score)} :
               /\ ledger' = r.ledger
               /\ event' = r.event
               /\ ledger_alt' =
                      IF data_alt = <<>> THEN ledger_alt
                      ELSE BacktestBar(data_alt, ledger_alt, bar, account,
                                       config, params,
                                       AverageAtr(data_alt, params.strategy),
                                       score).ledger
    /\ bar' = bar + 1
    /\ UNCHANGED <<rmVars, stVars, agVars, data, data_alt, params>>

\* Lines 140-166: the loop is over and the summary is computed.
Finish ==
    /\ data # <<>>
    /\ bar >= Len(data)
    /\ event.kind # "finished"
    /\ event' = [event EXCEPT !.kind = "finished"]
    /\ UNCHANGED <<rmVars, stVars, agVars, data, data_alt, params, bar,
                   ledger, ledger_alt>>

BTNext == AbortNoData \/ ProcessBar \/ Finish

SpecBT == BTInit /\ [][BTNext]_vars

\* Two runs whose series agree on every bar but the last.
LAInit ==
    /\ data \in Series
    /\ \E b \in BarAlphabet :
           /\ b # data[MaxBars]
           /\ data_alt = [data EXCEPT ![MaxBars] = b]
    /\ params = DefaultRun
    /\ account = Account(Int2R(1000))
    /\ BtRiskManager
    /\ StIdle
    /\ AgIdle
    /\ bar = params.strategy.ema_trend_len
    /\ ledger = InitialLedger(params)
    /\ ledger_alt = InitialLedger(params)
    /\ event = NoEvent("start")

LANext == ProcessBar \/ Finish

SpecLookahead == LAInit /\ [][LANext]_vars

----------------------------------------------------------------------------
(* Properties of run_backtest.                                             *)

BarProcessed == event.kind = "bar"

\* C1: for every price series and every parameter choice the ledger's cash
\* is >= 0 after every processed bar; an entry that would overdraw cash is
\* rejected outright, with the ledger left flat and its cash untouched.
C1_CashNeverNegative ==
    /\ Ge(ledger.cash, Zero)
    /\ (BarProcessed /\ event.entry = "rejected_cash") =>
           (~ledger.active /\ ledger.cash = event.cash_before_entry)

PositionsClosed == Len(ledger.trades)

PositionsHeld == ledger.opened - PositionsClosed

\* C2: the simulator holds at most one open position at any point: every
\* position ever opened has been cleared, except the single one recorded in
\* active_trade, so an entry is only ever made while flat.
C2_SinglePosition ==
    /\ PositionsHeld \in {0, 1}
    /\ ledger.active <=> PositionsHeld = 1
    /\ (BarProcessed /\ event.entry = "opened") =>
           (ledger.active /\ ledger.trade.entry_bar = event.bar)

\* C2's case: a second position is opened after the first one was cleared.
C2_Witness ==
    /\ BarProcessed
    /\ event.entry = "opened"
    /\ ledger.opened = 2
    /\ PositionsClosed = 1

\* C3: no lookahead. Two runs whose series agree on every bar but the last
\* have the same ledger after every bar before the last.
C3_NoLookahead == bar <= Len(data) - 1 => ledger = ledger_alt

----------------------------------------------------------------------------
(* Properties of the RiskState's mutators (checked under SpecRM).          *)

\* A step in which the Risk Manager operation op returned: the wall clock
\* and the brokerage did not move.
OpReturned(op) ==
    /\ call'.op = op
    /\ today' = today
    /\ open_positions' = open_positions

LossCountersKept ==
    /\ daily_pnl' = daily_pnl
    /\ consecutive_losses' = consecutive_losses

DailyReset ==
    /\ today > last_reset_date
    /\ daily_pnl' = Zero
    /\ consecutive_losses' = 0

\* C11: record_trade_close(pnl) adds pnl to daily_pnl, adds exactly 1 to
\* consecutive_losses when pnl < 0 and sets it to 0 when pnl >= 0;
\* calculate_position_size and check_correlation leave daily_pnl and
\* consecutive_losses as they were, and can_open_new_trade changes them only
\* by the daily reset.
C11_OnlyCloseMutates ==
    [][/\ OpReturned("record_trade_close") =>
              /\ daily_pnl' = Add(daily_pnl, call'.pnl)
              /\ Lt(call'.pnl, Zero) =>
                     consecutive_losses' = consecutive_losses + 1
              /\ Ge(call'.pnl, Zero) => consecutive_losses' = 0
       /\ (OpReturned("calculate_position_size")
             \/ OpReturned("check_correlation")) => LossCountersKept
       /\ OpReturned("can_open_new_trade") =>
              (LossCountersKept \/ DailyReset)]_vars

\* C11's case: a second losing close in a row has been recorded.
C11_Witness ==
    /\ call.op = "record_trade_close"
    /\ Lt(call.pnl, Zero)
    /\ consecutive_losses = 2
    /\ daily_pnl = Int2R(-40)

----------------------------------------------------------------------------
(* Properties of check_correlation (checked under SpecCorr).               *)

CorrelationReturned == call.op = "check_correlation"

\* The k-th open symbol has a column, a defined correlation with the
\* candidate and a coefficient at or beyond the threshold.
BlockingPair(k) ==
    /\ call.fetch.close_prices[call.open_positions_symbols[k]] # NoColumn
    /\ Corr(call.fetch.close_prices[call.symbol],
            call.fetch.close_prices[call.open_positions_symbols[k]]).defined
    /\ HighlyCorrelated(
           Corr(call.fetch.close_prices[call.symbol],
                call.fetch.close_prices[call.open_positions_symbols[k]]),
           call.correlation_threshold)

\* C19: check_correlation returns false if and only if the fetch returned
\* data, the candidate has a column, and some open symbol has a column and
\* a defined correlation with the candidate of absolute value >= threshold;
\* an empty open list, a failed or empty fetch and a candidate without data
\* give true, and a pair without data or correlation is skipped.
C19_FailOpenCorrelation ==
    CorrelationReturned =>
        /\ ~call.allowed <=>
               /\ call.fetch.outcome = "table"
               /\ call.fetch.close_prices[call.symbol] # NoColumn
               /\ \E k \in 1 .. Len(call.open_positions_symbols) :
                      BlockingPair(k)
        /\ call.open_positions_symbols = <<>> => call.allowed
        /\ call.fetch.outcome # "table" => call.allowed

\* C19's case: the first open symbol has no data and is skipped, the second
\* is correlated with the candidate and blocks it.
C19_Witness ==
    /\ CorrelationReturned
    /\ ~call.allowed
    /\ Len(call.open_positions_symbols) = 2
    /\ call.fetch.close_prices[call.open_positions_symbols[1]] = NoColumn

----------------------------------------------------------------------------
(* The Risk Manager's loss counters during a backtest (SpecBT).            *)

RECURSIVE RealizedPnl(_)
RealizedPnl(trades) ==
    IF trades = <<>> THEN Zero
    ELSE Add(trades[Len(trades)].pnl,
             RealizedPnl(SubSeq(trades, 1, Len(trades) - 1)))

\* C12: record_trade_close is called exactly once for every realized exit:
\* the calls made equal the completed trades in number, and the Risk
\* Manager's daily_pnl holds the sum of their pnl.
C12_EveryExitRecorded ==
    /\ ledger.closes_recorded = Len(ledger.trades)
    /\ daily_pnl = RealizedPnl(ledger.trades)

----------------------------------------------------------------------------
(* The portfolio row of a processed bar (SpecBT).                          *)

\* C13: after every processed bar total = cash + position_value, and
\* position_value is 0 when the simulator is flat and the bar's close times
\* the held quantity when it is in a position, whether the bar made an
\* entry, an exit, both or neither.
C13_TotalIsCashPlusPosition ==
    BarProcessed =>
        /\ ledger.total = Add(ledger.cash, ledger.position_value)
        /\ ~ledger.active => ledger.position_value = Zero
        /\ ledger.active =>
               ledger.position_value =
                   Mul(data[event.bar + 1].close, ledger.trade.quantity)

\* C13's case: one bar closed a position and opened the next one.
C13_Witness ==
    /\ BarProcessed
    /\ event.exit # "none"
    /\ event.entry = "opened"
    /\ ledger.active

----------------------------------------------------------------------------
(* The indicator library over a series that grows bar by bar: after every  *)
(* new bar the columns are computed again over all the bars so far.        *)

\* No Risk Manager is in use.
RmIdle ==
    /\ account = NoAccount
    /\ config = DefaultConfig
    /\ daily_pnl = Zero
    /\ consecutive_losses = 0
    /\ last_reset_date = 0
    /\ today = 0
    /\ open_positions = 0
    /\ call = NoCall
    /\ tripped = FALSE
    /\ won_since = FALSE

IndicatorParams == [StrategyParams EXCEPT !.atr_len = 2]

IndInit ==
    /\ RmIdle
    /\ AgIdle
    /\ data = <<>> /\ data_alt = <<>> /\ bar = 0
    /\ params = [strategy |-> IndicatorParams]
    /\ ledger = [unused |-> TRUE] /\ ledger_alt = [unused |-> TRUE]
    /\ event = "none"
    /\ columns = IndicatorColumns(<<>>, IndicatorParams)
    /\ strategy = [unused |-> TRUE]
    /\ last_signal = NoSignal

\* A bar is appended to the series and the columns are recomputed.
AppendBar ==
    /\ Len(data) < MaxBars
    /\ \E b \in BarAlphabet :
           /\ data' = Append(data, b)
           /\ columns' = IndicatorColumns(Append(data, b), params.strategy)
    /\ UNCHANGED <<rmVars, agVars, data_alt, params, bar, ledger, ledger_alt,
                   event, strategy, last_signal>>

SpecInd == IndInit /\ [][AppendBar]_vars

ColumnNames == {"ema", "atr", "rsi", "adx", "plus_di", "minus_di"}

\* C17: every indicator column is causal: the values at the indices of the
\* bars already there are the same whatever bar comes after them.
C17_ColumnsCausal ==
    [][\A c \in ColumnNames :
           \A k \in 1 .. Len(data) : columns'[c][k] = columns[c][k]]_vars

\* C17's case: a defined RSI and ADX at a bar that is followed by a
\* different bar.
C17_Witness ==
    /\ Len(data) >= 5
    /\ data[5] # data[4]
    /\ ~IsNaN(columns.rsi[4])
    /\ ~IsNaN(columns.adx[4])
    /\ columns.rsi[5] # columns.rsi[4]

\* No close in the RSI window ending at index k is below the close before
\* it: the average loss over the window is 0.
NoLossInWindow(k) ==
    \A j \in (k - params.strategy.rsi_len + 1) .. k :
        j >= 2 => Ge(data[j].close, data[j - 1].close)

\* C18: at every index past the warm-up where the average loss over the
\* window is 0, a completely flat series included, the RSI column holds 100.
C18_RsiSaturates ==
    \A k \in params.strategy.rsi_len .. Len(data) :
        NoLossInWindow(k) => columns.rsi[k] = Hundred

----------------------------------------------------------------------------
(* The two strategy variants as their callers see them: a constructor over *)
(* a frame of bars and a parameter map, then generate_signal.              *)

\* What the module src/src/indicators.py defines.
IndicatorLibrary ==
    {"calculate_ema", "calculate_atr", "calculate_rsi", "calculate_adx"}

\* df[name] raises KeyError on a frame that has rows without that column.
MissingColumn(d) ==
    \E k \in 1 .. Len(d) : {"high", "low", "close"} \ DOMAIN d[k] # {}

\* params[key] raises KeyError when the map has no such key.
MissingKey(sp, keys) == keys \ DOMAIN sp # {}

\* ewm(span=length) raises ValueError unless span >= 1.
BadSpan(sp, keys) == \E key \in keys \cap DOMAIN sp : sp[key] < 1

PullbackLengths ==
    {"ema_fast_len", "ema_slow_len", "ema_trend_len", "atr_len", "adx_len",
     "rsi_len"}

\* An exception leaves PullbackStrategy._calculate_indicators.
PullbackRaises(d, sp) ==
    \/ MissingColumn(d)
    \/ MissingKey(sp, PullbackLengths)
    \/ BadSpan(sp, PullbackLengths \ {"rsi_len"})

\* PullbackStrategy(data, params, sentiment_analyzer): nothing in __init__
\* catches what _calculate_indicators raises, so the caller gets the
\* exception and no object (raised).
PullbackStrategy(d, sp) ==
    IF PullbackRaises(d, sp)
    THEN [variant |-> "pullback", data |-> d, params |-> sp, df |-> <<>>,
          raised |-> TRUE]
    ELSE [variant |-> "pullback", data |-> d, params |-> sp,
          df |-> StrategyFrame(d, sp), raised |-> FALSE]

\* get_sentiment_score is called: a setup holds and a slug is configured.
SentimentConsulted(df, sp) ==
    /\ Len(df) >= 2
    /\ sp.slug
    /\ \/ LongSetup(df[Len(df)], df[Len(df) - 1], sp)
       \/ ShortSetup(df[Len(df)], df[Len(df) - 1], sp)

RollingMin(vals, window) ==
    [k \in 1 .. Len(vals) |->
        IF k < window THEN NaN
        ELSE CHOOSE m \in {vals[j] : j \in (k - window + 1) .. k} :
                 \A j \in (k - window + 1) .. k : Le(m, vals[j])]

RollingMax(vals, window) ==
    [k \in 1 .. Len(vals) |->
        IF k < window THEN NaN
        ELSE CHOOSE m \in {vals[j] : j \in (k - window + 1) .. k} :
                 \A j \in (k - window + 1) .. k : Ge(m, vals[j])]

\* The stochastic oscillator as the specification defines it (the library
\* has no such function): %K and %D.
calculate_stoch(d, k, d_len, smooth_k) ==
    LET lowest == RollingMin(Lows(d), k)
        highest == RollingMax(Highs(d), k)
        raw == [i \in 1 .. Len(d) |->
                   Mul(Hundred, Div(Sub(d[i].close, lowest[i]),
                                    Sub(highest[i], lowest[i])))]
        stoch_k == calculate_ema(AsSeries(raw), smooth_k)
    IN  <<stoch_k, RollingMean(stoch_k, d_len)>>

\* The rows of the scalping frame before dropna.
ScalpingRows(d, sp) ==
    LET ema_fast == calculate_ema(Closes(d), sp.ema_fast_len)
        ema_slow == calculate_ema(Closes(d), sp.ema_slow_len)
        stoch == calculate_stoch(d, sp.stoch_k, sp.stoch_d, sp.stoch_smooth_k)
        atr == calculate_atr(d, sp.atr_len)
    IN  [i \in 1 .. Len(d) |->
            [high |-> d[i].high, low |-> d[i].low, close |-> d[i].close,
             ema_fast |-> ema_fast[i], ema_slow |-> ema_slow[i],
             stoch_k |-> stoch[1][i], stoch_d |-> stoch[2][i],
             atr |-> atr[i]]]

ScalpingRowComplete(row) ==
    \A x \in {row.high, row.low, row.close, row.ema_fast, row.ema_slow,
              row.stoch_k, row.stoch_d, row.atr} : ~IsNaN(x)

ScalpingLengths ==
    {"ema_fast_len", "ema_slow_len", "stoch_k", "stoch_d", "stoch_smooth_k",
     "atr_len"}

\* An exception is raised inside the try of
\* ScalpingStrategy._calculate_indicators; the attribute lookup
\* ind.calculate_stoch is one (AttributeError).
ScalpingRaises(d, sp) ==
    \/ MissingColumn(d)
    \/ MissingKey(sp, ScalpingLengths)
    \/ BadSpan(sp, {"ema_fast_len", "ema_slow_len", "atr_len"})
    \/ "calculate_stoch" \notin IndicatorLibrary

\* ScalpingStrategy(data, params): whatever is raised while the indicators
\* are computed is caught and the frame is replaced by an empty one.
ScalpingStrategy(d, sp) ==
    [variant |-> "scalping", data |-> d, params |-> sp,
     df |-> IF ScalpingRaises(d, sp) THEN <<>>
            ELSE SelectSeq(ScalpingRows(d, sp), ScalpingRowComplete),
     raised |-> FALSE]

\* ScalpingStrategy.generate_signal(position).
scalping_generate_signal(df, sp, position) ==
    IF Len(df) < 2 THEN "HOLD"
    ELSE LET latest == df[Len(df)]
             second_latest == df[Len(df) - 1]
             is_uptrend == Gt(latest.ema_fast, latest.ema_slow)
             is_downtrend == Lt(latest.ema_fast, latest.ema_slow)
             bearish_crossover ==
                 /\ Gt(second_latest.ema_fast, second_latest.ema_slow)
                 /\ Lt(latest.ema_fast, latest.ema_slow)
             bullish_crossover ==
                 /\ Lt(second_latest.ema_fast, second_latest.ema_slow)
                 /\ Gt(latest.ema_fast, latest.ema_slow)
         IN  IF position # "none"
             THEN IF position = "long" /\ bearish_crossover THEN "EXIT_LONG"
                  ELSE IF position = "short" /\ bullish_crossover
                  THEN "EXIT_SHORT"
                  ELSE "HOLD_POSITION"
             ELSE IF is_uptrend /\ Lt(latest.stoch_k, sp.stoch_oversold)
             THEN "BUY"
             ELSE IF is_downtrend /\ Gt(latest.stoch_k, sp.stoch_overbought)
             THEN "SELL"
             ELSE "HOLD"

\* The inputs of the strategy machine.
ScalpingParams ==
    [ema_fast_len |-> 2, ema_slow_len |-> 3, stoch_k |-> 2, stoch_d |-> 1,
     stoch_smooth_k |-> 1, atr_len |-> 1, stoch_oversold |-> Int2R(30),
     stoch_overbought |-> Int2R(60)]

Without(sp, key) == [k \in DOMAIN sp \ {key} |-> sp[k]]

PullbackParamSets ==
    {StrategyParams, [StrategyParams EXCEPT !.slug = TRUE],
     Without(StrategyParams, "rsi_len"),
     [StrategyParams EXCEPT !.ema_fast_len = 0]}

ScalpingParamSets == {ScalpingParams, Without(ScalpingParams, "atr_len")}

\* A frame that lost its high and low columns.
CloseOnly(d) == [k \in 1 .. Len(d) |-> [close |-> d[k].close]]

Frames(d) == {d, CloseOnly(d)}

Positions == {"none", "long", "short"}

StratInit ==
    /\ RmIdle
    /\ AgIdle
    /\ data = <<>> /\ data_alt = <<>> /\ bar = 0
    /\ params = [strategy |-> StrategyParams]
    /\ ledger = [unused |-> TRUE] /\ ledger_alt = [unused |-> TRUE]
    /\ event = "none"
    /\ StIdle

\* The price series grows until a strategy is constructed over it.
NewBar ==
    /\ strategy = [unused |-> TRUE]
    /\ Len(data) < MaxBars
    /\ \E b \in BarAlphabet : data' = Append(data, b)
    /\ UNCHANGED <<rmVars, agVars, stVars, data_alt, params, bar, ledger,
                   ledger_alt, event>>

ConstructPullback ==
    /\ strategy = [unused |-> TRUE]
    /\ \E sp \in PullbackParamSets : \E d \in Frames(data) :
           strategy' = PullbackStrategy(d, sp)
    /\ UNCHANGED <<rmVars, agVars, btVars, columns, last_signal>>

ConstructScalping ==
    /\ strategy = [unused |-> TRUE]
    /\ \E sp \in ScalpingParamSets : \E d \in Frames(data) :
           strategy' = ScalpingStrategy(d, sp)
    /\ UNCHANGED <<rmVars, agVars, btVars, columns, last_signal>>

\* generate_signal() of the pullback variant; the provider answers score if
\* it is asked.
PullbackGenerateSignal ==
    /\ strategy # [unused |-> TRUE]
    /\ strategy.variant = "pullback"
    /\ ~strategy.raised
    /\ last_signal = NoSignal
    /\ \E score \in SentimentScores :
           last_signal' =
               [signal |-> generate_signal(strategy.df, strategy.params,
                                           score),
                position |-> "none", score |-> score,
                consulted |-> SentimentConsulted(strategy.df,
                                                 strategy.params)]
    /\ UNCHANGED <<rmVars, agVars, btVars, columns, strategy>>

ScalpingGenerateSignal ==
    /\ strategy # [unused |-> TRUE]
    /\ strategy.variant = "scalping"
    /\ last_signal = NoSignal
    /\ \E position \in Positions :
           last_signal' =
               [signal |-> scalping_generate_signal(strategy.df,
                                                    strategy.params, position),
                position |-> position, score |-> Zero, consulted |-> FALSE]
    /\ UNCHANGED <<rmVars, agVars, btVars, columns, strategy>>

StratNext ==
    \/ NewBar
    \/ ConstructPullback
    \/ ConstructScalping
    \/ PullbackGenerateSignal
    \/ ScalpingGenerateSignal

SpecStrategy == StratInit /\ [][StratNext]_vars

----------------------------------------------------------------------------
(* Claims about the strategy variants.                                     *)

Constructed(variant) ==
    /\ strategy # [unused |-> TRUE]
    /\ strategy.variant = variant

Asked(variant) == Constructed(variant) /\ last_signal # NoSignal

\* The rows with every indicator defined that the series given to the
\* scalping constructor yields.
IndicatorBearingRows ==
    IF \/ MissingColumn(strategy.data)
       \/ MissingKey(strategy.params, ScalpingLengths)
    THEN <<>>
    ELSE SelectSeq(ScalpingRows(strategy.data, strategy.params),
                   ScalpingRowComplete)

\* C14: asked with no open position over a series that yields at least two
\* indicator-bearing rows, the scalping variant answers BUY when on the
\* latest row ema_fast > ema_slow and %K < stoch_oversold, SELL when
\* ema_fast < ema_slow and %K > stoch_overbought, and HOLD otherwise.
C14_ScalpingEntries ==
    (Asked("scalping") /\ last_signal.position = "none"
        /\ Len(IndicatorBearingRows) >= 2)
    => LET latest == IndicatorBearingRows[Len(IndicatorBearingRows)]
           sp == strategy.params
       IN  last_signal.signal =
               IF /\ Gt(latest.ema_fast, latest.ema_slow)
                  /\ Lt(latest.stoch_k, sp.stoch_oversold)
               THEN "BUY"
               ELSE IF /\ Lt(latest.ema_fast, latest.ema_slow)
                       /\ Gt(latest.stoch_k, sp.stoch_overbought)
               THEN "SELL"
               ELSE "HOLD"

C16_NeverRaises ==
    /\ strategy # [unused |-> TRUE] => ~strategy.raised
    /\ \A variant \in {"pullback", "scalping"} :
           (Asked(variant) /\ Len(strategy.df) < 2)
           => last_signal.signal = "HOLD"

----------------------------------------------------------------------------
(* TradingAgent (src/src/agent.py): start() and stop() called from the     *)
(* GUI thread's button handlers, and the threads running _main_loop.       *)

\* Bounds of the agent machine.
MaxThreads == 4

NumSymbols == 3

\* Thread.is_alive() of the thread t, with 0 for None.
is_alive_never(ths, t) == FALSE

is_alive(ths, t) == t # 0 /\ ths[t].pc # "exited"

\* No call of start() or stop() is in progress on the GUI thread.
CallerFree == caller \in {"idle", "started", "refused"}

\* A loop thread at pc, with no symbols left to analyse. late counts the
\* symbol analyses the thread finished after the run flag was cleared, and
\* failed tells whether an exception was caught in one of its cycles.
ThreadAt(pc) == [pc |-> pc, left |-> 0, late |-> 0, failed |-> FALSE]

At(t, pc) == [threads EXCEPT ![t] = [@ EXCEPT !.pc = pc, !.left = 0]]

\* A cycle of thread t raised: the except branch of lines 157-159.
Caught(t) == [At(t, "except") EXCEPT ![t].failed = TRUE]

AgentInit == RmIdle /\ BtIdle

\* start(), lines 32-34: the thread is alive, nothing is started.
StartRefused ==
    /\ CallerFree
    /\ agent_thread # 0 /\ is_alive(threads, agent_thread)
    /\ caller' = "refused"
    /\ UNCHANGED <<rmVars, btVars, stVars, is_running, agent_thread, threads,
                   cycle>>

\* start(), line 32: no thread, or one that has exited.
StartCheck ==
    /\ CallerFree
    /\ ~(agent_thread # 0 /\ is_alive(threads, agent_thread))
    /\ Len(threads) < MaxThreads
    /\ caller' = "starting"
    /\ UNCHANGED <<rmVars, btVars, stVars, is_running, agent_thread, threads,
                   cycle>>

\* start(), lines 35-37: the flag is set, a new thread created and started.
StartThread ==
    /\ caller = "starting"
    /\ is_running' = TRUE
    /\ threads' = Append(threads, ThreadAt("setup"))
    /\ agent_thread' = Len(threads) + 1
    /\ caller' = "started"
    /\ UNCHANGED <<rmVars, btVars, stVars, cycle>>

\* stop(), lines 42-43: the flag is cleared; join if there is a thread.
StopClear ==
    /\ CallerFree
    /\ is_running' = FALSE
    /\ caller' = IF agent_thread # 0 THEN "joining" ELSE "idle"
    /\ UNCHANGED <<rmVars, btVars, stVars, agent_thread, threads, cycle>>

\* stop(), line 44: join() returns once the thread has exited.
StopJoined ==
    /\ caller = "joining"
    /\ ~is_alive(threads, agent_thread)
    /\ caller' = "idle"
    /\ UNCHANGED <<rmVars, btVars, stVars, is_running, agent_thread, threads,
                   cycle>>

\* _main_loop, lines 56-59: the client and the executor are built outside
\* the try; AlpacaAPIClient() raises without credentials and the thread ends.
LoopSetup ==
    /\ \E t \in DOMAIN threads :
           /\ threads[t].pc = "setup"
           /\ \E pc \in {"while", "exited"} : threads' = At(t, pc)
    /\ UNCHANGED <<rmVars, btVars, stVars, is_running, agent_thread, caller,
                   cycle>>

WhileTestIgnoresFlag(flag) == "cycle"

\* Line 61: while self.is_running.is_set().
WhileTest(flag) == IF flag THEN "cycle" ELSE "exited"

LoopTest ==
    /\ \E t \in DOMAIN threads :
           /\ threads[t].pc = "while"
           /\ threads' = At(t, WhileTest(is_running))
    /\ UNCHANGED <<rmVars, btVars, stVars, is_running, agent_thread, caller,
                   cycle>>

\* Lines 62-111: configuration, open positions, the gate. The cycle goes on
\* to the symbols if the gate allows; a closed gate leads to the GUI update
\* and the sleep, an exception to the except branch.
CycleBody ==
    /\ \E t \in DOMAIN threads :
           /\ threads[t].pc = "cycle"
           /\ \/ threads' = [threads EXCEPT ![t].pc = "symbols",
                                            ![t].left = NumSymbols]
              \/ threads' = At(t, "sleep")
              \/ threads' = Caught(t)
    /\ UNCHANGED <<rmVars, btVars, stVars, is_running, agent_thread, caller,
                   cycle>>

\* Lines 112-114: the head of the entry loop. The loop ends when no symbol
\* is left; a symbol with an open position or order is passed over (line
\* 113); otherwise the run flag is looked at and a cleared flag breaks out
\* of the loop (line 114).
SymbolTest ==
    /\ \E t \in DOMAIN threads :
           /\ threads[t].pc = "symbols"
           /\ IF threads[t].left = 0
              THEN threads' = At(t, "sleep")
              ELSE \/ threads' =
                          [threads EXCEPT ![t].left = threads[t].left - 1]
                   \/ threads' =
                          IF ~is_running THEN At(t, "sleep")
                          ELSE [threads EXCEPT ![t].pc = "analyzing"]
    /\ UNCHANGED <<rmVars, btVars, stVars, is_running, agent_thread, caller,
                   cycle>>

\* Lines 116-140: one symbol is analysed (the bars, the strategy, at most
\* one call of place_order_with_sl); the run flag is not looked at.
AnalyzeSymbol ==
    /\ \E t \in DOMAIN threads :
           /\ threads[t].pc = "analyzing"
           /\ \E late \in {threads[t].late + IF is_running THEN 0 ELSE 1} :
                  \/ threads' = [threads EXCEPT
                                    ![t].pc = "symbols",
                                    ![t].left = threads[t].left - 1,
                                    ![t].late = late]
                  \/ threads' = [Caught(t) EXCEPT ![t].late = late]
    /\ UNCHANGED <<rmVars, btVars, stVars, is_running, agent_thread, caller,
                   cycle>>

\* Lines 142-155: the GUI update and time.sleep, then back to the test; a
\* brokerage call that raises leads to the except branch.
Sleep ==
    /\ \E t \in DOMAIN threads :
           /\ threads[t].pc = "sleep"
           /\ \/ threads' = At(t, "while")
              \/ threads' = Caught(t)
    /\ UNCHANGED <<rmVars, btVars, stVars, is_running, agent_thread, caller,
                   cycle>>

\* Lines 157-159: the exception is logged, the thread sleeps 30 seconds and
\* goes back to the test.
CycleExcept ==
    /\ \E t \in DOMAIN threads :
           /\ threads[t].pc = "except"
           /\ threads' = At(t, "while")
    /\ UNCHANGED <<rmVars, btVars, stVars, is_running, agent_thread, caller,
                   cycle>>

AgentNext ==
    \/ StartRefused
    \/ StartCheck
    \/ StartThread
    \/ StopClear
    \/ StopJoined
    \/ LoopSetup
    \/ LoopTest
    \/ CycleBody
    \/ SymbolTest
    \/ AnalyzeSymbol
    \/ Sleep
    \/ CycleExcept

SpecAgent == AgentInit /\ [][AgentNext]_vars

\* The scheduler runs a started thread, time.sleep and join return, and
\* every brokerage call returns: a step that can be taken is taken.
AgentFairness ==
    /\ WF_vars(StartThread)
    /\ WF_vars(StopJoined)
    /\ WF_vars(LoopSetup)
    /\ WF_vars(LoopTest)
    /\ WF_vars(CycleBody)
    /\ WF_vars(SymbolTest)
    /\ WF_vars(AnalyzeSymbol)
    /\ WF_vars(Sleep)
    /\ WF_vars(CycleExcept)

SpecAgentFair == SpecAgent /\ AgentFairness

\* The threads executing _main_loop, and those inside a decision cycle.
Looping == {t \in DOMAIN threads : threads[t].pc # "exited"}

InCycle ==
    {t \in DOMAIN threads :
        threads[t].pc \in {"cycle", "symbols", "analyzing", "sleep", "except"}}

\* C20: at most one thread executes _main_loop at any time and at most one
\* is inside a decision cycle, and a loop thread is started only when every
\* earlier loop thread has exited: a start() while one is alive starts
\* nothing, a start() after stop() starts one after the previous has exited.
C20_SingleLoopThread ==
    /\ [](Cardinality(Looping) <= 1 /\ Cardinality(InCycle) <= 1)
    /\ [][Len(threads') > Len(threads) => Looping = {}]_vars

\* C20's case: a thread was started, stopped and joined, a second one was
\* started and is inside a cycle, and a further start() was refused.
C20_Witness ==
    /\ Len(threads) = 2
    /\ threads[1].pc = "exited"
    /\ threads[2].pc = "symbols"
    /\ caller = "refused"

----------------------------------------------------------------------------
(* Properties of the bar loop's exit and entry steps (SpecBT).             *)

\* The loop body ran for the bar at index bar (row bar + 1 of data).
BarStep == bar' = bar + 1

\* The ledger's cash after the exit step of the bar just processed: the
\* cash before a position opened on the same bar was paid for.
CashAfterExitStep ==
    IF event'.entry = "opened"
    THEN Add(ledger'.cash,
             Mul(ledger'.trade.quantity, ledger'.trade.entry_price))
    ELSE ledger'.cash

\* The levels of the open trade that the close of the bar breaches.
BreachedLevels ==
    (IF Le(data[bar + 1].close, ledger.trade.stop_loss)
     THEN {ledger.trade.stop_loss} ELSE {})
    \cup (IF Ge(data[bar + 1].close, ledger.trade.take_profit)
          THEN {ledger.trade.take_profit} ELSE {})

\* C22: while a position is open, a bar whose close is <= stop_loss or
\* >= take_profit exits at the breached level: exactly one trade record is
\* appended, with pnl = (exit_price - entry_price) x quantity, cash is
\* credited quantity x exit_price, and the position is cleared with
\* position_value 0 (unless the same bar opens the next one); a bar that
\* breaches neither level leaves the position open and cash unchanged.
C22_ExitAtBreachedLevel ==
    [][(BarStep /\ ledger.active)
       => IF BreachedLevels # {}
          THEN /\ Len(ledger'.trades) = Len(ledger.trades) + 1
               /\ SubSeq(ledger'.trades, 1, Len(ledger.trades))
                      = ledger.trades
               /\ LET done == ledger'.trades[Len(ledger'.trades)]
                  IN  /\ done.exit_price \in BreachedLevels
                      /\ done.entry_price = ledger.trade.entry_price
                      /\ done.quantity = ledger.trade.quantity
                      /\ done.pnl = Mul(Sub(done.exit_price,
                                            done.entry_price),
                                        done.quantity)
                      /\ CashAfterExitStep
                             = Add(ledger.cash,
                                   Mul(done.quantity, done.exit_price))
               /\ IF event'.entry = "opened"
                  THEN ledger'.trade.entry_bar = bar
                  ELSE ~ledger'.active /\ ledger'.position_value = Zero
          ELSE /\ ledger'.active
               /\ ledger'.trade.entry_bar = ledger.trade.entry_bar
               /\ ledger'.cash = ledger.cash
               /\ ledger'.trades = ledger.trades]_vars

\* C22's case: the bar just processed closed below the stop of the open
\* trade and the trade was exited at the stop, not at the bar's close.
C22_Witness ==
    /\ BarProcessed
    /\ event.exit = "stop"
    /\ Gt(params.rr_ratio, Zero)
    /\ LET done == ledger.trades[Len(ledger.trades)]
       IN  /\ done.exit_price = done.stop_loss
           /\ Lt(data[event.bar + 1].close, done.exit_price)
           /\ Lt(done.pnl, Zero)

\* The notional of the entry the bar just processed asked for.
Notional == Mul(event'.requested, data[bar + 1].close)

\* C23: a bar that starts FLAT opens a position only if the signal is BUY,
\* the Risk Manager's quantity is > 0 and cash covers the notional
\* quantity x entry_price; on opening, cash is debited by exactly the
\* notional and position_value is the notional. If one of the conditions
\* fails, the signal is SELL or HOLD, or the frame is empty, the bar leaves
\* cash, position_value and the FLAT state as they were.
C23_EntryOnlyWhenCovered ==
    [][(BarStep /\ ~ledger.active)
       => /\ ledger'.active
             => /\ event'.signal = "BUY"
                /\ Gt(event'.requested, Zero)
                /\ Ge(ledger.cash, Notional)
                /\ ledger'.trade.quantity = event'.requested
                /\ ledger'.trade.entry_price = data[bar + 1].close
                /\ ledger'.cash = Sub(ledger.cash, Notional)
                /\ ledger'.position_value = Notional
          /\ (\/ event'.signal # "BUY"
              \/ ~Gt(event'.requested, Zero)
              \/ Lt(ledger.cash, Notional))
             => /\ ~ledger'.active
                /\ ledger'.cash = ledger.cash
                /\ ledger'.position_value = ledger.position_value
                /\ ledger'.trades = ledger.trades]_vars

\* C23's case: a BUY on a FLAT bar was turned down because cash did not
\* cover the notional, after an earlier entry had been taken and closed.
C23_Witness ==
    /\ BarProcessed
    /\ event.exit = "none"
    /\ event.entry = "rejected_cash"
    /\ ledger.opened >= 1
    /\ ~ledger.active

\* The ATR of the last row of the frame the strategy saw at bar index i.
AtrAtEntry(i) ==
    Bind(StrategyFrame(SubSeq(data, 1, i + 1), params.strategy),
         LAMBDA df : df[Len(df)].atr)

\* A trade, open or completed, has the levels of a long position.
WellFormedTrade(t) ==
    /\ Gt(t.quantity, Zero)
    /\ Gt(t.stop_loss, Zero)
    /\ Lt(t.stop_loss, t.entry_price)
    /\ Lt(t.entry_price, t.take_profit)
    /\ t.stop_loss
           = Sub(t.entry_price, Mul(Rat(3, 2), AtrAtEntry(t.entry_bar)))
    /\ t.take_profit
           = Add(t.entry_price,
                 Mul(params.rr_ratio, Sub(t.entry_price, t.stop_loss)))

\* C26: with rr_ratio > 0 every position the simulator holds or has held
\* has quantity > 0 and 0 < stop_loss < entry_price < take_profit, with
\* stop_loss = entry - 1.5 x atr and take_profit = entry + rr_ratio x
\* (entry - stop_loss); no bar's close breaches both levels of a trade,
\* every stop exit has pnl < 0 and every take-profit exit has pnl > 0.
C26_LevelsOrdered ==
    (params # [unused |-> TRUE] /\ Gt(params.rr_ratio, Zero))
    => /\ ledger.active => WellFormedTrade(ledger.trade)
       /\ \A j \in 1 .. Len(ledger.trades) :
              LET t == ledger.trades[j]
                  close == data[t.exit_bar + 1].close
              IN  /\ WellFormedTrade(t)
                  /\ ~(Le(close, t.stop_loss) /\ Ge(close, t.take_profit))
                  /\ Le(close, t.stop_loss)
                         => (t.exit_price = t.stop_loss /\ Lt(t.pnl, Zero))
                  /\ Ge(close, t.take_profit)
                         => (t.exit_price = t.take_profit
                             /\ Gt(t.pnl, Zero))

\* C26's case: with rr_ratio > 0 a position was opened and later closed
\* at a loss, and the run has ended.
C26_Witness ==
    /\ Gt(params.rr_ratio, Zero)
    /\ event.kind = "finished"
    /\ \E j \in 1 .. Len(ledger.trades) : Lt(ledger.trades[j].pnl, Zero)

\* C27: the ledger conserves value: on the bar that opens a position the
\* total equals the cash held before the entry was paid, and whenever the
\* simulator is FLAT after a bar its cash is initial_capital plus the sum
\* of the pnl of all completed trades.
C27_ValueConserved ==
    (params # [unused |-> TRUE])
    => /\ (BarProcessed /\ event.entry = "opened")
              => ledger.total = event.cash_before_entry
       /\ ~ledger.active
              => /\ ledger.cash = Add(params.initial_capital,
                                      RealizedPnl(ledger.trades))
                 /\ ledger.total = ledger.cash

\* C27's case: the simulator is FLAT after a bar that closed a position at
\* its stop, with a loss taken out of the initial capital.
C27_Witness ==
    /\ BarProcessed
    /\ ~ledger.active
    /\ event.exit = "stop"
    /\ Lt(ledger.cash, params.initial_capital)
    /\ Lt(data[event.bar + 1].close,
          ledger.trades[Len(ledger.trades)].exit_price)

\* The quantity the Risk Manager would return for the entry of the bar
\* just processed if its equity were the previous bar's cash +
\* position_value (the value line 121 stores in client.account.equity).
SizedFromSimulatedEquity ==
    Bind(AtrAtEntry(event.bar), LAMBDA last_atr :
        calculate_position_size(
            Account(ledger.sim_equity), config, data[event.bar + 1].close,
            Sub(data[event.bar + 1].close, Mul(StopAtrMultiple, last_atr)),
            Some(last_atr), Some(AverageAtr(data, params.strategy)),
            TRUE).quantity)

\* C28: a bar on which a position is exited is also evaluated for a new
\* entry: after the exit the simulator is FLAT, or holds a position opened
\* on that same bar, and the quantity asked for a BUY on that bar is sized
\* from the previous bar's cash + position_value.
C28_ExitBarReenters ==
    (BarProcessed /\ event.exit # "none")
    => /\ ledger.active
              => (event.entry = "opened"
                  /\ ledger.trade.entry_bar = event.bar)
       /\ event.signal = "BUY"
              => event.requested = SizedFromSimulatedEquity

----------------------------------------------------------------------------
(* The directional movements of calculate_adx over a series that grows bar *)
(* by bar, with bars whose range may widen on both sides.                   *)

DmAlphabet == BarAlphabet \cup {WideBar(10, 4)}

DirectionalMovement(d) == [plus_dm |-> PlusDM(d), minus_dm |-> MinusDM(d)]

DmInit ==
    /\ RmIdle
    /\ AgIdle
    /\ data = <<>> /\ data_alt = <<>> /\ bar = 0
    /\ params = [strategy |-> StrategyParams]
    /\ ledger = [unused |-> TRUE] /\ ledger_alt = [unused |-> TRUE]
    /\ event = "none"
    /\ columns = DirectionalMovement(<<>>)
    /\ strategy = [unused |-> TRUE]
    /\ last_signal = NoSignal

\* A bar is appended and lines 28-32 of calculate_adx run over the series.
AppendRangeBar ==
    /\ Len(data) < MaxBars
    /\ \E b \in DmAlphabet :
           /\ data' = Append(data, b)
           /\ columns' = DirectionalMovement(Append(data, b))
    /\ UNCHANGED <<rmVars, agVars, data_alt, params, bar, ledger, ledger_alt,
                   event, strategy, last_signal>>

SpecDM == DmInit /\ [][AppendRangeBar]_vars

\* C25: at every index past the first, +DM and -DM (as a magnitude) are
\* each >= 0 and at most one of them is non-zero.
C25_MovementsExclusive ==
    \A k \in 2 .. Len(data) :
        /\ Ge(columns.plus_dm[k], Zero)
        /\ Ge(AbsR(columns.minus_dm[k]), Zero)
        /\ columns.plus_dm[k] = Zero \/ columns.minus_dm[k] = Zero

----------------------------------------------------------------------------
(* The scalping variant asked about an open position (SpecStrategy).       *)

\* The answer the exit rules give on the indicator-bearing rows for the
\* side of the open position.
ExitRuleAnswer(rows, side) ==
    LET latest == rows[Len(rows)]
        previous == rows[Len(rows) - 1]
    IN  IF /\ side = "long"
           /\ Gt(previous.ema_fast, previous.ema_slow)
           /\ Lt(latest.ema_fast, latest.ema_slow)
        THEN "EXIT_LONG"
        ELSE IF /\ side = "short"
                /\ Lt(previous.ema_fast, previous.ema_slow)
                /\ Gt(latest.ema_fast, latest.ema_slow)
        THEN "EXIT_SHORT"
        ELSE "HOLD_POSITION"

\* C24: asked with an open position over a series that yields at least two
\* indicator-bearing rows, the scalping variant answers EXIT_LONG when the
\* position is long and a bearish crossover occurred, EXIT_SHORT when it is
\* short and a bullish crossover occurred, and HOLD_POSITION otherwise;
\* never BUY, SELL or HOLD.
C24_ScalpingExits ==
    (Asked("scalping") /\ last_signal.position # "none"
        /\ Len(IndicatorBearingRows) >= 2)
    => last_signal.signal
           = ExitRuleAnswer(IndicatorBearingRows, last_signal.position)

----------------------------------------------------------------------------
(* The decision cycles of one loop thread (agent.py lines 61-159): the     *)
(* Risk Manager each cycle constructs, the wall clock, the brokerage's     *)
(* positions and orders, and the entry orders the cycle submits.           *)

\* Bound of the cycle machine.
MaxCycles == 2

\* Line 72: the fallback of symbols_to_trade.
SymbolsToAnalyze == <<"BTC/USD", "ETH/USD">>

\* The symbols the brokerage account can hold positions in, and the open
\* orders it can hold, at the start of a cycle.
BrokerageSymbols == {"BTC/USD", "ETH/USD", "SOL/USD", "LTC/USD"}

PositionSets ==
    {P \in SUBSET BrokerageSymbols : Cardinality(P) <= MaxPositions}

OrderSets == {{}, {"ETH/USD"}}

\* What one pass of the entry loop's body can come to (lines 118-140): the
\* bars are missing, the strategy's frame is empty, the strategy answers,
\* or something raises.
EntryOutcomes == {"no_data", "empty_frame", "HOLD", "SELL", "BUY", "raised"}

\* RiskManager.__init__, lines 24-27: the RiskState of a new instance.
NewRiskState(now) ==
    [daily_pnl |-> Zero, consecutive_losses |-> 0, last_reset_date |-> now]

\* The loop thread is running and no cycle has begun.
LiveInit ==
    /\ RmIdle
    /\ StIdle
    /\ data = <<>> /\ data_alt = <<>> /\ bar = 0
    /\ params = [unused |-> TRUE] /\ ledger = [unused |-> TRUE]
    /\ ledger_alt = [unused |-> TRUE] /\ event = "none"
    /\ is_running = TRUE /\ agent_thread = 1
    /\ threads = <<ThreadAt("cycle")>> /\ caller = "started"
    /\ cycle = NoCycle

\* Lines 61-83: a new cycle. A new RiskManager is constructed (line 65),
\* then the positions and the open orders are listed (lines 77-78); a
\* brokerage call that raises leads to the except branch.
BeginCycle ==
    /\ cycle.pc = "while"
    /\ cycle.n < MaxCycles
    /\ \E acct \in {NoAccount, Account(Int2R(1000))} :
           /\ account' = acct
           /\ config' = DefaultConfig
           /\ SetRiskState(NewRiskState(today))
           /\ tripped' = FALSE /\ won_since' = FALSE
           /\ call' = NoCall
    /\ \E P \in PositionSets, O \in OrderSets, listed \in BOOLEAN :
           /\ open_positions' = Cardinality(P)
           /\ cycle' = [NoCycle EXCEPT
                           !.pc = IF listed THEN "manage" ELSE "except",
                           !.n = cycle.n + 1,
                           !.positions = IF listed THEN P ELSE {},
                           !.order_symbols = IF listed THEN O ELSE {},
                           !.next = 1]
    /\ UNCHANGED <<today, btVars, stVars, is_running, agent_thread, threads,
                   caller>>

\* Lines 89-108: the open positions are managed; those whose strategy
\* answers EXIT_LONG or EXIT_SHORT are closed by a market order, which the
\* brokerage fills after the cycle's gate has counted the positions, so
\* nothing the cycle reads later is changed.
ManagePositions ==
    /\ cycle.pc = "manage"
    /\ \E pc \in {"gate", "except"} : cycle' = [cycle EXCEPT !.pc = pc]
    /\ UNCHANGED <<rmVars, btVars, stVars, is_running, agent_thread, threads,
                   caller>>

\* Line 111: can_open_new_trade is asked once, before the entry loop.
EntryGate ==
    /\ cycle.pc = "gate"
    /\ \E queryOk \in BOOLEAN :
           LET st == reset_daily_stats_if_needed(RiskState, today)
               allowed == GateVerdict(st, account, queryOk, open_positions)
           IN  /\ SetRiskState(st)
               /\ History(RiskState, st, FALSE)
               /\ call' = [NoCall EXCEPT
                               !.op = "can_open_new_trade",
                               !.queryOk = queryOk,
                               !.date = today, !.n = open_positions,
                               !.allowed = allowed]
               /\ cycle' = [cycle EXCEPT
                               !.pc = IF allowed THEN "symbols" ELSE "gui"]
    /\ UNCHANGED <<account, today, open_positions, config, btVars, stVars,
                   is_running, agent_thread, threads, caller>>

\* Lines 132-140: a BUY for symbol. The size is asked of the cycle's Risk
\* Manager; with a positive quantity the order is submitted, and
\* place_order_with_sl swallows a brokerage failure.
EnterLive(symbol) ==
    \E args \in SizingArgs({Int2R(100)}, {Int2R(94)}, {None}, {TRUE}) :
        \E sized \in {Sized(args)}, placed \in BOOLEAN :
            /\ call' = sized
            /\ cycle' = [cycle EXCEPT
                            !.next = cycle.next + 1,
                            !.submitted =
                                IF Gt(sized.quantity, Zero) /\ placed
                                THEN cycle.submitted \cup {symbol}
                                ELSE cycle.submitted]

\* Lines 112-140: one pass of the entry loop, or its end.
AnalyzeEntry ==
    /\ cycle.pc = "symbols"
    /\ IF cycle.next > Len(SymbolsToAnalyze) \/ ~is_running
       THEN cycle' = [cycle EXCEPT !.pc = "gui"] /\ call' = call
       ELSE LET symbol == SymbolsToAnalyze[cycle.next]
            IN  IF symbol \in cycle.positions \cup cycle.order_symbols
                THEN /\ cycle' = [cycle EXCEPT !.next = cycle.next + 1]
                     /\ call' = call
                ELSE \E outcome \in EntryOutcomes :
                         CASE outcome = "BUY" -> EnterLive(symbol)
                           [] outcome = "raised" ->
                                  /\ cycle' = [cycle EXCEPT !.pc = "except"]
                                  /\ call' = call
                           [] OTHER ->
                                  /\ cycle' = [cycle EXCEPT
                                                  !.next = cycle.next + 1]
                                  /\ call' = call
    /\ UNCHANGED <<account, daily_pnl, consecutive_losses, last_reset_date,
                   today, open_positions, config, tripped, won_since, btVars,
                   stVars, is_running, agent_thread, threads, caller>>

\* Lines 142-155: the GUI update and the sleep of poll_interval_seconds;
\* a brokerage call that raises leads to the except branch.
EndCycle ==
    /\ cycle.pc = "gui"
    /\ \E pc \in {"while", "except"} : cycle' = [cycle EXCEPT !.pc = pc]
    /\ UNCHANGED <<rmVars, btVars, stVars, is_running, agent_thread, threads,
                   caller>>

\* Lines 157-159: the exception is logged, the thread sleeps 30 seconds and
\* goes back to the test of the run flag.
CycleFailed ==
    /\ cycle.pc = "except"
    /\ cycle' = [cycle EXCEPT !.pc = "while"]
    /\ UNCHANGED <<rmVars, btVars, stVars, is_running, agent_thread, threads,
                   caller>>

\* The realized results reported to the Risk Manager in a cycle.
LiveClosePnls == {Int2R(-20), Int2R(20)}

\* A closed trade is reported to the Risk Manager of the cycle in progress
\* (record_trade_close, lines 68-76).
ReportClose ==
    /\ cycle.pc = "gui"
    /\ \E pnl \in LiveClosePnls :
           LET st == record_trade_close(RiskState, pnl)
           IN  /\ st.consecutive_losses <= MaxStreak
               /\ AbsInt(st.daily_pnl[1]) <= PnlCap * st.daily_pnl[2]
               /\ SetRiskState(st)
               /\ History(RiskState, st, ~Lt(pnl, Zero))
               /\ call' = [NoCall EXCEPT !.op = "record_trade_close",
                                         !.pnl = pnl]
    /\ UNCHANGED <<account, today, open_positions, config, btVars, stVars,
                   is_running, agent_thread, threads, caller, cycle>>

LiveNext ==
    \/ BeginCycle
    \/ ManagePositions
    \/ EntryGate
    \/ AnalyzeEntry
    \/ EndCycle
    \/ CycleFailed
    \/ ReportClose
    \/ Midnight

SpecLive == LiveInit /\ [][LiveNext]_vars

----------------------------------------------------------------------------
(* Properties of the decision cycles (SpecLive).                           *)

----------------------------------------------------------------------------
(* Cancellation of the loop thread (SpecAgentFair).                        *)

\* Thread t is inside the loop body: between the while test and the end
\* of the sleep that closes the cycle.
InLoopBody(t) ==
    threads[t].pc \in {"cycle", "symbols", "analyzing", "sleep", "except"}

\* C30: cancellation is cooperative and terminates. Once stop() has cleared
\* the run flag, a loop thread finishes at most the one symbol analysis in
\* progress (so at most one more entry order), begins no new cycle and
\* exits at its next while test; stop() eventually returns with the thread
\* no longer alive, provided every brokerage call returns; and while the
\* flag is set no step of the loop body, an exception included, ends the
\* thread.
C30_CooperativeStop ==
    /\ [](\A t \in DOMAIN threads : threads[t].late <= 1)
    /\ [][\A t \in DOMAIN threads :
              /\ (~is_running /\ threads[t].pc # "cycle")
                 => threads'[t].pc # "cycle"
              /\ (~is_running /\ threads[t].pc = "while")
                 => threads'[t].pc \in {"while", "exited"}
              /\ (is_running /\ InLoopBody(t))
                 => threads'[t].pc # "exited"]_vars
    /\ (caller = "joining")
       ~> (caller = "idle" /\ ~is_alive(threads, agent_thread))

\* C30's case: stop() cleared the flag while the thread was analysing a
\* symbol, after an exception had been caught in one of its cycles; the
\* thread finished that symbol and exited, and stop() has returned.
C30_Witness ==
    /\ agent_thread = 1
    /\ threads[1].pc = "exited"
    /\ threads[1].late = 1
    /\ threads[1].failed
    /\ caller = "idle"
    /\ ~is_running

====
